---- MODULE Spec2Model ----
(***************************************************************************)
(* httpdis: command registry, authentication gate and request dispatcher  *)
(* of src/httpdis/httpdis.py, modelled as a state machine.                 *)
(*                                                                         *)
(* Python semantics are those of the interpreter the module was written   *)
(* for (Python 2: str is bytes, b64decode returns str).                    *)
(***************************************************************************)
EXTENDS Integers, Sequences, FiniteSets, TLC

VARIABLES
    COMMANDS,   \* _COMMANDS: composite key -> Command (all routes)
    NCMD,       \* _NCMD: composite key -> Command (literal routes)
    RCMD,       \* _RCMD: composite key -> Command (pattern routes)
    nregs,      \* number of register() calls made so far
    lastReg,    \* the last register() call: its arguments and what it raised
    AUTH,       \* _AUTH: the HttpAuthentication instance (shared by all threads)
    OPTIONS,    \* _OPTIONS and the HttpReqHandler class attributes set at startup
    phase,      \* where the main thread is: "registering", "init" (the
                \* safe_init loop of init()), "initialized", "starting" (the
                \* at_start loop of run()), "loop" (the while test of run()),
                \* "serving" (in serve_until_killed()), "returned", "raised"
    h,          \* one HttpReqHandler per connection thread
    KILLED,     \* _KILLED: the kill flag
    HTTP_SERVER, \* _HTTP_SERVER: "none", or the server "open", "killed", "closed"
    main,       \* the main thread: the keys its callback loop has yet to
                \* visit, whether it has called serve_until_killed(), how
                \* the last call ended (why), and why run() raised (err)
    sig,        \* the running sigterm_handler(): its position, the keys its
                \* at_stop loop has yet to visit, the number of calls so far
    calls       \* (callback, command id) -> number of calls of the callback

\* the variables of the server lifecycle
lifevars == <<KILLED, HTTP_SERVER, main, sig, calls>>

vars == <<COMMANDS, NCMD, RCMD, nregs, lastReg, AUTH, OPTIONS, phase, h,
          lifevars>>

(***************************************************************************)
(* Bounds of the model                                                     *)
(***************************************************************************)
MaxRegs == 3        \* register() calls explored by SpecReg
NThreads == 2       \* connection threads
MaxBodySize == 2    \* _OPTIONS['max_body_size'], scaled down
MaxSignals == 2     \* stop() calls and shutdown signals
MaxPairs == 2       \* (key, value) pairs of a query string

Threads == 1 .. NThreads

None == "<None>"    \* Python's None where a string is expected

(***************************************************************************)
(* String helpers (Python str methods used by the code)                    *)
(***************************************************************************)
StartsWith(s, p) == Len(s) >= Len(p) /\ SubSeq(s, 1, Len(p)) = p

\* index of the first occurrence of the one-character string c in s, 0 if none
FindChar(s, c) ==
    LET idx == {i \in 1 .. Len(s) : SubSeq(s, i, i) = c}
    IN  IF idx = {} THEN 0 ELSE CHOOSE i \in idx : \A j \in idx : i <= j

\* s.partition(c): <<head, tail>>, tail empty when c does not occur
Partition(s, c) ==
    LET i == FindChar(s, c)
    IN  IF i = 0 THEN <<s, "">>
        ELSE <<SubSeq(s, 1, i - 1), SubSeq(s, i + 1, Len(s))>>

\* str.upper() on the method names the model uses
Upper(x) ==
    CASE x = "get"  -> "GET"
      [] x = "post" -> "POST"
      [] x = "head" -> "HEAD"
      [] OTHER      -> x

(***************************************************************************)
(* Command registry                                                        *)
(***************************************************************************)
METHODS == {"HEAD", "GET", "DELETE", "PATCH", "POST", "PUT"}

\* to_auth argument of register(): a bool or a list of user names
AuthBool(b)  == [list |-> FALSE, b |-> b, users |-> <<>>]
AuthList(us) == [list |-> TRUE,  b |-> FALSE, users |-> us]

\* name argument of register(): None, a literal string or a compiled pattern
NoName     == [re |-> FALSE, s |-> ""]
Literal(s) == [re |-> FALSE, s |-> s]
Pattern(s) == [re |-> TRUE,  s |-> s]

\* the absent command (self._cmd = None)
NoCmd ==
    [id |-> 0, name |-> NoName, handler |-> "", op |-> <<>>,
     safe_init |-> FALSE, at_start |-> FALSE, at_stop |-> FALSE,
     static |-> FALSE, root |-> "", replacement |-> "", charset |-> "",
     content_type |-> "", to_auth |-> FALSE, auth_users |-> <<>>,
     to_log |-> TRUE]

\* Command.__init__: raises TypeError when to_auth is a list or tuple, because
\* filter() is called with its arguments swapped (a function is not iterable)
\* (the callbacks safe_init, at_start and at_stop are kept as "is set")
CommandInit(id, name, handler, op, safe_init, at_start, at_stop, static, root, replacement, charset, content_type, to_auth, to_log) ==
    IF to_auth.list
    THEN [exc |-> "TypeError", cmd |-> NoCmd]
    ELSE [exc |-> "none",
          cmd |-> [id |-> id, name |-> name, handler |-> handler, op |-> op,
                   safe_init |-> safe_init, at_start |-> at_start,
                   at_stop |-> at_stop,
                   static |-> static, root |-> root,
                   replacement |-> replacement, charset |-> charset,
                   content_type |-> content_type,
                   to_auth |-> to_auth.b, auth_users |-> <<>>,
                   to_log |-> to_log]]

\* the composite key of one method of a registration
MKey(method, key, is_reg) ==
    IF is_reg THEN method \o " " \o key ELSE method \o " /" \o key

\* a registry state threaded through register()
RegState(C, N, R, exc) == [C |-> C, N |-> N, R |-> R, exc |-> exc]

\* one iteration of the insertion loop of register(), without the
\* "already registred" test: the key is rebound
InsertOneOverwrite(st, mkey, cmd, is_reg) ==
    IF st.exc # "none" THEN st
    ELSE [st EXCEPT !.C = [k \in DOMAIN st.C \cup {mkey} |->
                               IF k = mkey THEN cmd ELSE st.C[k]],
                    !.N = IF is_reg THEN @
                          ELSE [k \in DOMAIN st.N \cup {mkey} |->
                                   IF k = mkey THEN cmd ELSE st.N[k]],
                    !.R = IF is_reg
                          THEN [k \in DOMAIN st.R \cup {mkey} |->
                                   IF k = mkey THEN cmd ELSE st.R[k]]
                          ELSE @]

\* one iteration of the insertion loop of register()
InsertOne(st, mkey, cmd, is_reg) ==
    IF st.exc # "none" THEN st
    ELSE IF mkey \in DOMAIN st.C
    THEN [st EXCEPT !.exc = "ValueError"]
    ELSE [st EXCEPT !.C = [k \in DOMAIN st.C \cup {mkey} |->
                               IF k = mkey THEN cmd ELSE st.C[k]],
                    !.N = IF is_reg THEN @
                          ELSE [k \in DOMAIN st.N \cup {mkey} |->
                                   IF k = mkey THEN cmd ELSE st.N[k]],
                    !.R = IF is_reg
                          THEN [k \in DOMAIN st.R \cup {mkey} |->
                                   IF k = mkey THEN cmd ELSE st.R[k]]
                          ELSE @]

RECURSIVE InsertMethods(_, _, _, _, _, _)
\* the insertion loop of register(): stops at the first key already present,
\* keeping what the earlier iterations inserted
InsertMethods(st, methods, i, key, cmd, is_reg) ==
    IF i > Len(methods) THEN st
    ELSE InsertMethods(InsertOne(st, MKey(methods[i], key, is_reg), cmd, is_reg),
                       methods, i + 1, key, cmd, is_reg)

\* the methods of a registration, upper-cased
RegMethods(op) == [i \in 1 .. Len(op) |-> Upper(op[i])]

\* the validation of register() without its tests on static commands
RegValidateNoStatic(inp) ==
    LET methods == RegMethods(inp.op)
    IN  IF \E i \in 1 .. Len(methods) : methods[i] \notin METHODS
        THEN "ValueError"
        ELSE IF methods = <<>> THEN "ValueError"
        ELSE "none"

\* the validation loop of register() and the two checks that follow it
RegValidate(inp) ==
    LET methods == RegMethods(inp.op)
    IN  IF \E i \in 1 .. Len(methods) :
              \/ methods[i] \notin METHODS
              \/ inp.static /\ methods[i] \notin {"GET", "HEAD"}
        THEN "ValueError"
        ELSE IF methods = <<>> THEN "ValueError"
        ELSE IF inp.static /\ inp.root = "" THEN "ValueError"
        ELSE "none"

\* the registration key: the pattern string, the literal name or the
\* handler's __name__
RegKey(inp) ==
    IF inp.name.re THEN inp.name.s
    ELSE IF inp.name.s # "" THEN inp.name.s
    ELSE inp.handler

\* register(): the registry and the exception after the call
RegisterResult(inp, id, C, N, R) ==
    LET is_reg  == inp.name.re
        key     == RegKey(inp)
        name    == IF inp.name.re \/ inp.name.s # "" THEN inp.name
                   ELSE Literal(inp.handler)
        methods == RegMethods(inp.op)
        v       == RegValidate(inp)
        ci      == CommandInit(id, name, inp.handler, methods, inp.safe_init,
                               inp.at_start, inp.at_stop, inp.static,
                               inp.root,
                               IF is_reg THEN inp.replacement ELSE "",
                               inp.charset,
                               inp.content_type, inp.to_auth, inp.to_log)
    IN  IF v # "none" THEN RegState(C, N, R, v)
        ELSE IF ci.exc # "none" THEN RegState(C, N, R, ci.exc)
        ELSE InsertMethods(RegState(C, N, R, "none"), methods, 1, key,
                           ci.cmd, is_reg)

\* a register() call: without callbacks, replacement or content_type unless
\* RegStatic or RegCallbacks adds them; the calls of the model pass the
\* charset "utf-8"
RegInput(handler, op, name, static, root, to_auth, to_log) ==
    [handler |-> handler, op |-> op, name |-> name, static |-> static,
     root |-> root, to_auth |-> to_auth, to_log |-> to_log,
     safe_init |-> FALSE, at_start |-> FALSE, at_stop |-> FALSE,
     replacement |-> "", charset |-> "utf-8", content_type |-> ""]

\* a register() call of a static command with its replacement, charset and
\* content_type arguments
RegStatic(inp, replacement, charset, content_type) ==
    [inp EXCEPT !.replacement = replacement, !.charset = charset,
                !.content_type = content_type]

\* a register() call with the callbacks safe_init, at_start and at_stop
RegCallbacks(inp, safe_init, at_start, at_stop) ==
    [inp EXCEPT !.safe_init = safe_init, !.at_start = at_start,
                !.at_stop = at_stop]

NoReg == [inp |-> RegInput("", <<>>, NoName, FALSE, "", AuthBool(FALSE), TRUE),
          exc |-> "none", dup |-> FALSE]

\* the register() calls the startup code may make
RegInputs ==
    { RegInput("ping", <<"GET">>, NoName, FALSE, "", AuthBool(FALSE), TRUE),
      RegInput("h2", <<"POST", "get">>, Literal("ping"), FALSE, "",
               AuthBool(FALSE), TRUE),
      RegInput("h3", <<"GET">>, Pattern("/ping"), FALSE, "", AuthBool(TRUE),
               TRUE),
      RegInput("item", <<"GET", "POST">>, Pattern("item/.*"), FALSE, "",
               AuthBool(FALSE), FALSE),
      RegInput("secret", <<"GET">>, NoName, FALSE, "", AuthBool(TRUE), TRUE),
      RegInput("secret", <<"GET">>, NoName, FALSE, "",
               AuthList(<<"alice">>), TRUE),
      RegInput("files", <<"GET", "HEAD">>, Pattern("static/.*"), TRUE, "/srv",
               AuthBool(FALSE), TRUE),
      RegInput("files", <<"GET", "POST">>, Literal("up"), TRUE, "/srv",
               AuthBool(FALSE), TRUE),
      RegInput("files", <<"GET">>, Literal("noroot"), TRUE, "",
               AuthBool(FALSE), TRUE),
      RegInput("trace", <<"TRACE">>, NoName, FALSE, "", AuthBool(FALSE), TRUE),
      RegInput("nop", <<>>, NoName, FALSE, "", AuthBool(FALSE), TRUE) }

\* some key of the call is already registered when the call is made
DupAtCall(inp, C) ==
    \E i \in 1 .. Len(inp.op) :
        MKey(Upper(inp.op[i]), RegKey(inp), inp.name.re) \in DOMAIN C

EmptyMap == [k \in {} |-> NoCmd]

(***************************************************************************)
(* Authentication gate                                                     *)
(***************************************************************************)
\* base64 of a string, kept reversible: B64Decode(B64Encode(s)) = s
B64Encode(s) == "b64<" \o s \o ">"

\* b64decode(): the decoded string, or None when the data is not base64
\* (TypeError "Incorrect padding")
B64Decode(d) ==
    IF Len(d) >= 5 /\ SubSeq(d, 1, 4) = "b64<" /\ SubSeq(d, Len(d), Len(d)) = ">"
    THEN SubSeq(d, 5, Len(d) - 1)
    ELSE None

\* b64encode(sha1(passwd).digest())
Sha1B64(passwd) == "sha1<" \o passwd \o ">"

\* crypt(passwd, salt)
Crypt(passwd, salt) == salt \o "crypt<" \o passwd \o ">"

\* HttpAuthentication.users after parse_file()
HtpasswdUsers ==
    [u \in {"alice", "bob"} |->
        IF u = "alice" THEN "{SHA}" \o Sha1B64("wonder")
        ELSE Crypt("builder", "ab")]

\* the part of valid_authorization() after the user and password are decoded:
\* the secret lookup and the hash comparison
SecretMatches(user, passwd) ==
    IF user \notin DOMAIN HtpasswdUsers THEN FALSE
    ELSE LET secret == HtpasswdUsers[user]
         IN  IF StartsWith(secret, "{SHA}")
             THEN secret = "{SHA}" \o Sha1B64(passwd)
             ELSE secret = Crypt(passwd, SubSeq(secret, 1, 2))

\* authorization.split(' ', 1)
SplitAuth(a) == Partition(a, " ")

\* the Authorization header has no space: the tuple unpacking of
\* valid_authorization() raises ValueError
AuthNoSpace(a) == FindChar(a, " ") = 0

\* kind.strip() != 'Basic' (no header of the model carries extra blanks)
AuthNotBasic(a) == SplitAuth(a)[1] # "Basic"

\* the string b64decode() returns for the header's data, None on error
AuthDecoded(a) == B64Decode(SplitAuth(a)[2])

\* (user, _, passwd) = decoded.partition(':')
AuthUser(a)   == Partition(AuthDecoded(a), ":")[1]
AuthPasswd(a) == Partition(AuthDecoded(a), ":")[2]

\* HttpAuthentication.__init__
NewAuth(configured) == [configured |-> configured, user |-> None, passwd |-> None]

(***************************************************************************)
(* Requests                                                                *)
(***************************************************************************)
\* a request as common_req() sees it: the method, the path after _pathify()
\* without its leading slash, and the headers the dispatcher reads
Request(method, path, auth, tenc, ctype, clen) ==
    [method |-> method, path |-> path, auth |-> auth, tenc |-> tenc,
     ctype |-> ctype, clen |-> clen, ims |-> None, query |-> <<>>]

\* the request with a query string: the list of (key, value) pairs
\* uri_help_split() makes of it
WithQuery(req, query) == [req EXCEPT !.query = query]

\* the request with an If-Modified-Since header
WithIms(req, ims) == [req EXCEPT !.ims = ims]

NoReq == Request("", "", None, None, None, None)

QueryMethods   == {"HEAD", "GET", "DELETE"}
PayloadMethods == {"PATCH", "POST", "PUT"}

\* str.lower() on the header values the model uses
Lower(x) ==
    CASE x = "Identity" -> "identity"
      [] x = "Application/JSON" -> "application/json"
      [] x = "Text/HTML" -> "text/html"
      [] x = "Text/Plain; charset=latin-1" -> "text/plain; charset=latin-1"
      [] x = "Text/CSS" -> "text/css"
      [] OTHER -> x

\* int(self.headers.get('Content-Length') or 0): ok is FALSE when int()
\* raises ValueError
ParseClen(v) ==
    IF v = None \/ v = "" THEN [ok |-> TRUE, n |-> 0]
    ELSE IF \E n \in -1 .. MaxBodySize + 1 : ToString(n) = v
    THEN [ok |-> TRUE, n |-> CHOOSE n \in -1 .. MaxBodySize + 1 : ToString(n) = v]
    ELSE [ok |-> FALSE, n |-> 0]

\* re.match(pattern, cmd) for the patterns of the model: anchored at the
\* start of cmd, not at its end
IsDigit(c) == c \in {"0", "1", "2", "3", "4", "5", "6", "7", "8", "9"}

ReMatch(pattern, cmd) ==
    CASE pattern = "item/.*" -> StartsWith(cmd, "item/")
      [] pattern = "item/.+" -> StartsWith(cmd, "item/") /\ Len(cmd) > 5
      [] pattern = "item/(?P<id>[0-9]+)" ->
             StartsWith(cmd, "item/") /\ Len(cmd) > 5 /\ IsDigit(SubSeq(cmd, 6, 6))
      [] pattern = "static/.*" -> StartsWith(cmd, "static/")
      [] pattern = "doc/(.*)" -> StartsWith(cmd, "doc/")
      [] pattern = "raw/(.*)" -> StartsWith(cmd, "raw/")
      [] pattern = "css/.*" -> StartsWith(cmd, "css/")
      [] OTHER -> StartsWith(cmd, pattern)

\* m.groupdict() for the patterns of the model: the value of the named group
\* id, or None when the pattern has no named group
GroupId(pattern, cmd) ==
    IF pattern = "item/(?P<id>[0-9]+)"
    THEN LET n == CHOOSE k \in 1 .. Len(cmd) - 5 :
                      /\ \A j \in 6 .. 5 + k : IsDigit(SubSeq(cmd, j, j))
                      /\ (5 + k = Len(cmd) \/ ~IsDigit(SubSeq(cmd, 6 + k, 6 + k)))
         IN  SubSeq(cmd, 6, 5 + n)
    ELSE None

(***************************************************************************)
(* Static responder                                                        *)
(***************************************************************************)
RECURSIVE StripSlashes(_)
\* filename.strip('/\\')
StripSlashes(s) ==
    IF s = "" THEN s
    ELSE IF SubSeq(s, 1, 1) \in {"/", "\\"}
    THEN StripSlashes(SubSeq(s, 2, Len(s)))
    ELSE IF SubSeq(s, Len(s), Len(s)) \in {"/", "\\"}
    THEN StripSlashes(SubSeq(s, 1, Len(s) - 1))
    ELSE s

RECURSIVE Split(_, _)
\* s.split(c) for a one-character separator
Split(s, c) ==
    LET i == FindChar(s, c)
    IN  IF i = 0 THEN <<s>>
        ELSE <<SubSeq(s, 1, i - 1)>> \o Split(SubSeq(s, i + 1, Len(s)), c)

RECURSIVE NormComps(_, _, _)
\* the component loop of os.path.normpath() on an absolute path: empty and
\* "." components are dropped, ".." removes the component before it and is
\* dropped at the top
NormComps(comps, i, acc) ==
    IF i > Len(comps) THEN acc
    ELSE IF comps[i] \in {"", "."} THEN NormComps(comps, i + 1, acc)
    ELSE IF comps[i] = ".."
    THEN NormComps(comps, i + 1,
                   IF acc = <<>> THEN acc ELSE SubSeq(acc, 1, Len(acc) - 1))
    ELSE NormComps(comps, i + 1, Append(acc, comps[i]))

RECURSIVE JoinComps(_, _)
\* the components of an absolute path, each after a slash
JoinComps(comps, i) ==
    IF i > Len(comps) THEN ""
    ELSE "/" \o comps[i] \o JoinComps(comps, i + 1)

\* the components of os.path.abspath(p), p absolute
AbsComps(p) == NormComps(Split(p, "/"), 1, <<>>)

\* os.path.abspath(p), p absolute
Abspath(p) ==
    IF AbsComps(p) = <<>> THEN "/" ELSE JoinComps(AbsComps(p), 1)

\* name.sub(replacement, urlpath) for the patterns of the model: the match
\* starts where the route matched and its group takes the rest of the path
ReSub(pattern, replacement, urlpath) ==
    CASE pattern = "doc/(.*)" /\ replacement = "\\1" ->
             SubSeq(urlpath, Len("doc/") + 1, Len(urlpath))
      [] pattern = "raw/(.*)" /\ replacement = "\\1" ->
             SubSeq(urlpath, Len("raw/") + 1, Len(urlpath))
      [] OTHER -> urlpath

\* os.path.join(a, b) for a relative b
PathJoin(a, b) ==
    IF a # "" /\ SubSeq(a, Len(a), Len(a)) = "/" THEN a \o b
    ELSE a \o "/" \o b

\* root of static_file() with the separator left off
StaticRootNoSep(cmd) == Abspath(cmd.root)

\* root of static_file(): os.path.abspath(self._cmd.root) + os.sep
StaticRoot(cmd) == Abspath(cmd.root) \o "/"

\* filename of static_file(): the path rewritten by the replacement of a
\* pattern route, joined to the root and made absolute
StaticFilename(cmd, urlpath) ==
    LET filename == IF cmd.name.re /\ cmd.replacement # ""
                    THEN ReSub(cmd.name.s, cmd.replacement, urlpath)
                    ELSE urlpath
    IN  Abspath(PathJoin(StaticRoot(cmd), StripSlashes(filename)))

\* what the file system holds at a path: os.path.exists() and isfile(),
\* os.access(R_OK), st_mtime in tenths of a second, the size of the content
\* and the MIME type libmagic finds
FileState(isfile, readable, mtime10, size, mime) ==
    [isfile |-> isfile, readable |-> readable, mtime10 |-> mtime10,
     size |-> size, mime |-> mime]

\* no file
NoFile == FileState(FALSE, FALSE, 0, 0, "")

\* int(stats.st_mtime)
MtimeSeconds(fs) == fs.mtime10 \div 10

\* an If-Modified-Since value of the model: a date n seconds after the epoch
HttpDate(n) == "Thu, 01 Jan 1970 00:00:0" \o ToString(n) \o " GMT"

RECURSIVE Strip(_)
\* str.strip() of the blanks at both ends
Strip(s) ==
    IF s = "" THEN s
    ELSE IF SubSeq(s, 1, 1) = " " THEN Strip(SubSeq(s, 2, Len(s)))
    ELSE IF SubSeq(s, Len(s), Len(s)) = " " THEN Strip(SubSeq(s, 1, Len(s) - 1))
    ELSE s

\* parse_date(): the epoch seconds of the date, ok FALSE when it returns None
ParseDate(v) ==
    IF \E n \in 0 .. 9 : HttpDate(n) = v
    THEN [ok |-> TRUE, t |-> CHOOSE n \in 0 .. 9 : HttpDate(n) = v]
    ELSE [ok |-> FALSE, t |-> 0]

\* the date static_file() compares: parse_date(ims.split(';')[0].strip())
IfModified(ims) == ParseDate(Strip(Split(ims, ";")[1]))

\* "if_modified >= int(stats.st_mtime)" with a strict comparison
NotModifiedStrict(ims, fs) ==
    /\ ims # None /\ ims # ""
    /\ IfModified(ims).ok
    /\ IfModified(ims).t > MtimeSeconds(fs)

\* the 304 test of static_file(): the header is present and its date is not
\* before the whole seconds of the file's mtime (Python 2 orders the None of
\* an unreadable date before every number: no 304)
NotModified(ims, fs) ==
    /\ ims # None /\ ims # ""
    /\ IfModified(ims).ok
    /\ IfModified(ims).t >= MtimeSeconds(fs)

\* the data of a response: a text (unicode) or a byte string of chars
\* characters, wide of them outside ASCII
Data(text, chars, wide) == [text |-> text, chars |-> chars, wide |-> wide]

NoData == Data(FALSE, 0, 0)

\* len(data)
PyLen(d) == d.chars

\* len(ensure_binary(data)): a text is encoded in UTF-8, where a character
\* outside ASCII takes two bytes or more (two in the model)
EnsureBinary(d) == IF d.text THEN d.chars + d.wide ELSE d.chars

\* no header but Content-type
NoHeaders == [k \in {} |-> ""]

\* str.capitalize() on the header names the model uses
Capitalize(k) ==
    CASE k = "Cache-Control" -> "Cache-control"
      [] k = "Content-Length" -> "Content-length"
      [] k = "X-Trace" -> "X-trace"
      [] k = "Last-Modified" -> "Last-modified"
      [] k = "WWW-Authenticate" -> "Www-authenticate"
      [] k = "Access-Control-Allow-Origin" -> "Access-control-allow-origin"
      [] k = "Access-Control-Allow-Methods" -> "Access-control-allow-methods"
      [] k = "Access-Control-Allow-Headers" -> "Access-control-allow-headers"
      [] k = "Access-Control-Max-Age" -> "Access-control-max-age"
      [] OTHER -> k

\* an HttpResponse: its code, data, Content-type header and send_body flag,
\* without other headers
HttpResponse(code, data, ctype, send_body) ==
    [http |-> TRUE, code |-> code, data |-> data, ctype |-> ctype,
     send_body |-> send_body, hdrs |-> NoHeaders]

\* a value that is not an HttpResponse (None, a string, a dict)
NotResponse(data) ==
    [http |-> FALSE, code |-> 200, data |-> data, ctype |-> "",
     send_body |-> TRUE, hdrs |-> NoHeaders]

\* HttpResponse.add_header(): urllib's Request keeps a header under its
\* capitalized name, a later value replacing an earlier one
AddHeader(resp, key, val) ==
    LET k == Capitalize(key)
    IN  [resp EXCEPT !.hdrs = [x \in DOMAIN resp.hdrs \cup {k} |->
                                  IF x = k THEN val ELSE resp.hdrs[x]]]

\* response.get_header(name), "" for None
GetHeader(resp, name) ==
    IF name = "Content-type" THEN resp.ctype
    ELSE IF name \in DOMAIN resp.hdrs THEN resp.hdrs[name]
    ELSE ""

\* response.header_items(), in the order of the dictionary
HeaderItems(resp) ==
    {<<k, resp.hdrs[k]>> : k \in DOMAIN resp.hdrs} \cup
    (IF resp.ctype # "" THEN {<<"Content-type", resp.ctype>>} ELSE {})

\* s.find(sub) != -1
Contains(s, sub) ==
    \E i \in 1 .. Len(s) - Len(sub) + 1 : SubSeq(s, i, i + Len(sub) - 1) = sub

\* mimetype of static_file() with the caller's header read first
StaticMimetypeCallerFirst(cmd, response) ==
    IF response.http /\ response.ctype # "" THEN response.ctype
    ELSE cmd.content_type

\* mimetype of static_file() before the sniffing test: the content_type of
\* the Command, and the Content-type header of the caller's response only
\* when the Command has none
StaticMimetype(cmd, response) ==
    IF cmd.content_type # "" THEN cmd.content_type
    ELSE IF response.http THEN response.ctype
    ELSE ""

\* the sniffing test of static_file()
StaticSniffs(cmd, response) ==
    StaticMimetype(cmd, response) \in {"", "__MAGIC__"}

\* the type libmagic finds, image/svg completed to image/svg+xml
Sniffed(mime) == IF mime = "image/svg" THEN "image/svg+xml" ELSE mime

\* the configured mimetype as static_file() sends it: in lower case, and
\* with the charset of the Command when it is a text type that names none
TextCharset(mimetype, charset) ==
    LET l == Lower(mimetype)
    IN  IF StartsWith(l, "text/") /\ charset # "" /\ ~Contains(l, "charset")
        THEN l \o "; charset=" \o charset
        ELSE l

\* the Content-type header of res after static_file() resolved it: the type
\* libmagic finds (image/svg completed), or the lower-cased mimetype with the
\* charset of the Command added to a text type that names none
StaticContentType(cmd, response, fs) ==
    IF StaticSniffs(cmd, response)
    THEN IF fs.mime # "" THEN Sniffed(fs.mime)
         ELSE IF response.http THEN response.ctype ELSE ""
    ELSE TextCharset(StaticMimetype(cmd, response), cmd.charset)

\* one access of static_file() to the file system
FsOp(op, path) == [op |-> op, path |-> path]

\* static_file(): err is TRUE when it raises req_error(code), else resp is
\* the response it returns; ops are its accesses to the file system, in
\* order (the Content-disposition header is not kept)
StaticFile(hr, response, fs) ==
    LET cmd      == hr.cmd
        root     == StaticRoot(cmd)
        filename == StaticFilename(cmd, hr.req.path)
        res0     == IF response.http THEN response
                    ELSE HttpResponse(200, NoData, "", TRUE)
        res      == AddHeader(res0, "Last-Modified",
                              HttpDate(MtimeSeconds(fs)))
        ctype    == StaticContentType(cmd, response, fs)
        checks   == <<FsOp("exists", filename), FsOp("access", filename)>>
        sniff    == IF StaticSniffs(cmd, response)
                    THEN <<FsOp("magic", filename)>> ELSE <<>>
        stat     == <<FsOp("stat", filename)>>
        out(err, code, resp, ops) ==
            [err |-> err, code |-> code, resp |-> resp, ops |-> ops,
             filename |-> filename]
    IN  IF ~StartsWith(filename, root) THEN out(TRUE, 403, res0, <<>>)
        ELSE IF ~fs.isfile
        THEN out(TRUE, 404, res, <<FsOp("exists", filename)>>)
        ELSE IF ~fs.readable THEN out(TRUE, 403, res, checks)
        ELSE IF NotModified(hr.req.ims, fs)
        THEN out(FALSE, 304,
                 [res EXCEPT !.code = 304, !.send_body = FALSE, !.ctype = ctype],
                 checks \o sniff \o stat)
        ELSE IF hr.req.method = "HEAD"
        THEN out(FALSE, 200,
                 [res EXCEPT !.code = 200, !.data = NoData, !.ctype = ctype],
                 checks \o sniff \o stat)
        ELSE out(FALSE, 200,
                 [res EXCEPT !.code = 200, !.data = Data(FALSE, fs.size, 0),
                             !.ctype = ctype],
                 checks \o sniff \o stat \o <<FsOp("open", filename)>>)

(***************************************************************************)
(* Parameter decoder                                                       *)
(***************************************************************************)
\* the keys of a decoded mapping: a string, or the integer of an append
IntKey(n) == [int |-> TRUE, n |-> n, s |-> ""]
StrKey(s) == [int |-> FALSE, n |-> 0, s |-> s]

\* the empty dict
NoItems == [k \in {} |-> 0]

\* the values of a decoded mapping: a string (or None) or a dict
Leaf(v) == [dict |-> FALSE, v |-> v, m |-> NoItems]
Dict(m) == [dict |-> TRUE, v |-> "", m |-> m]

\* ref[k] = node
Put(m, k, node) == [x \in DOMAIN m \cup {k} |-> IF x = k THEN node ELSE m[x]]

RECURSIVE FindAll(_)
\* re.findall(r'\[([^\]]*)\]', s): what stands between each opening bracket
\* and the first closing bracket after it
FindAll(s) ==
    LET i    == FindChar(s, "[")
        tail == SubSeq(s, i + 1, Len(s))
        j    == FindChar(tail, "]")
    IN  IF i = 0 \/ j = 0 THEN <<>>
        ELSE <<SubSeq(tail, 1, j - 1)>> \o FindAll(SubSeq(tail, j + 1, Len(tail)))

\* "while j in ref: j += 1"
NextFree(m, j) ==
    CHOOSE n \in j .. j + Cardinality(DOMAIN m) :
        /\ IntKey(n) \notin DOMAIN m
        /\ \A k \in j .. n - 1 : IntKey(k) \in DOMAIN m

RECURSIVE Walk(_, _, _, _, _)
\* the segment loop of querylist_to_dict() from its i-th segment on, ref
\* being the dict m: j is set to 0 before the loop and kept from one segment
\* to the next
Walk(m, matched, i, j, value) ==
    LET j1 == IF matched[i] = "" THEN NextFree(m, j) ELSE j
        k  == IF matched[i] = "" THEN IntKey(j1) ELSE StrKey(matched[i])
        child == IF k \notin DOMAIN m \/ ~m[k].dict THEN NoItems ELSE m[k].m
    IN  IF i = Len(matched) THEN Put(m, k, Leaf(value))
        ELSE Put(m, k, Dict(Walk(child, matched, i + 1, j1, value)))

\* one iteration of the pair loop of querylist_to_dict()
DecodePair(ret, x) ==
    LET value    == IF Len(x) > 1 THEN x[2] ELSE None
        lbracket == FindChar(x[1], "[")
        key      == StrKey(SubSeq(x[1], 1, lbracket - 1))
        matched  == FindAll(SubSeq(x[1], lbracket, Len(x[1])))
        ref      == IF key \in DOMAIN ret /\ ret[key].dict THEN ret[key].m
                    ELSE NoItems
    IN  IF x = <<>> THEN ret
        ELSE IF x[1] = "" \/ FindChar(x[1], "]") = 0
        THEN Put(ret, StrKey(x[1]), Leaf(value))
        ELSE IF lbracket = 0 THEN Put(ret, StrKey(x[1]), Leaf(value))
        ELSE IF matched = <<>> THEN Put(ret, key, Leaf(value))
        ELSE Put(ret, key, Dict(Walk(ref, matched, 1, 0, value)))

RECURSIVE DecodePairs(_, _, _)
\* the pair loop of querylist_to_dict()
DecodePairs(query, i, ret) ==
    IF i > Len(query) THEN ret
    ELSE DecodePairs(query, i + 1, DecodePair(ret, query[i]))

\* querylist_to_dict() without the removal of ____ts
QuerylistToDictKeepTs(query) == DecodePairs(query, 1, NoItems)

\* querylist_to_dict() on a list: the pairs are decoded in order, then the
\* key ____ts is removed
QuerylistToDict(query) ==
    LET ret == DecodePairs(query, 1, NoItems)
    IN  [k \in DOMAIN ret \ {StrKey("____ts")} |-> ret[k]]

(***************************************************************************)
(* Request dispatcher                                                      *)
(***************************************************************************)
\* the pattern routes of the method that match cmd
PatternCandidates(method, cmd, R) ==
    {key \in DOMAIN R :
        StartsWith(key, method \o " ") /\ ReMatch(R[key].name.s, cmd)}

\* the candidates a scan in ascending key length would meet first
FirstShortest(keys) == {k \in keys : \A j \in keys : Len(k) <= Len(j)}

\* sorted(_RCMD, key=len, reverse=True): the candidates the scan can meet
\* first (keys of equal length come in the dictionary's order)
FirstInOrder(keys) == {k \in keys : \A j \in keys : Len(j) <= Len(k)}

\* command resolution with the pattern routes tried before the literal ones
ResolvePatternFirst(method, cmd, N, R) ==
    LET ckey  == method \o " /" \o cmd
        cands == PatternCandidates(method, cmd, R)
    IN  IF cands # {}
        THEN {[cmd |-> R[k], qid |-> GroupId(R[k].name.s, cmd)] :
                  k \in FirstInOrder(cands)}
        ELSE IF ckey \in DOMAIN N THEN {[cmd |-> N[ckey], qid |-> None]}
        ELSE {[cmd |-> NoCmd, qid |-> None]}

\* the command resolution at the head of data_from_query() and
\* data_from_payload(): the commands self._cmd can be bound to, with the
\* named group merged into the query parameters
Resolve(method, cmd, N, R) ==
    LET ckey  == method \o " /" \o cmd
        cands == PatternCandidates(method, cmd, R)
    IN  IF ckey \in DOMAIN N THEN {[cmd |-> N[ckey], qid |-> None]}
        ELSE IF cands = {} THEN {[cmd |-> NoCmd, qid |-> None]}
        ELSE {[cmd |-> R[k], qid |-> GroupId(R[k].name.s, cmd)] :
                  k \in FirstInOrder(cands)}

\* the Content-Length test of data_from_payload() with a missing header
\* rejected instead of read as 0
ClenCheckStrict(v, max_body_size) ==
    LET c == ParseClen(v)
    IN  IF v = None \/ ~c.ok THEN 411
        ELSE IF c.n < 0 THEN 411
        ELSE IF c.n > max_body_size THEN 413
        ELSE 0

\* the Content-Length test of data_from_payload() without the size limit
ClenCheckNoLimit(v, max_body_size) ==
    LET c == ParseClen(v)
    IN  IF ~c.ok THEN 411
        ELSE IF c.n < 0 THEN 411
        ELSE 0

\* the Content-Length test of data_from_payload(): the status to raise, 0 if
\* none
ClenCheck(v, max_body_size) ==
    LET c == ParseClen(v)
    IN  IF ~c.ok THEN 411
        ELSE IF c.n < 0 THEN 411
        ELSE IF c.n > max_body_size THEN 413
        ELSE 0

\* the media type of a Content-Type header: ctype.lower().split(';', 1)[0]
MediaType(ctype) == Partition(Lower(ctype), ";")[1]

\* the Transfer-Encoding and Content-Type tests of data_from_payload(): the
\* status to raise, 0 if none
EncodingCheck(req, opts) ==
    IF req.tenc # None /\ req.tenc # "" /\ Lower(req.tenc) # "identity" THEN 501
    ELSE IF req.ctype = None \/ req.ctype = "" THEN 0
    ELSE IF MediaType(req.ctype) = "multipart/form-data"
    THEN (IF opts.allowed_multipart THEN 0 ELSE 501)
    ELSE IF opts.allowed_ctypes # {} /\ MediaType(req.ctype) \notin opts.allowed_ctypes
    THEN 501
    ELSE 0

\* the header tests data_from_payload() makes before authenticate()
PayloadHeaderCheck(req, opts) ==
    IF EncodingCheck(req, opts) # 0 THEN EncodingCheck(req, opts)
    ELSE ClenCheck(req.clen, opts.max_body_size)

\* an HttpReqHandler after common_req() has reset it
\* (query_params is self._query_params without the named groups of the
\* route, which qid holds)
\* (code, ctype, clen and written are the status, Content-Type and
\* Content-Length sent and the body bytes written; head are the headers
\* sent first, in order, rest the headers sent after them, in the order of
\* a dictionary; exc is the unexpected
\* exception execute() raised, outer the exception that reached the outer
\* try of common_req(), logged whether LOG.exception() was called,
\* req_logged whether send_response() called log_request(), nresp the
\* number of calls of end_response(), each of which writes a status line,
\* wfail whether a write to the socket failed, items the header items of the
\* response given to end_response())
HReset ==
    [pc |-> "idle", req |-> NoReq, cmd |-> NoCmd, qid |-> None,
     query_params |-> NoItems,
     to_log |-> TRUE, SERVER |-> [user |-> None, passwd |-> None],
     allowed |-> FALSE, auth_called |-> FALSE,
     code |-> 0, www_auth |-> FALSE, handler_called |-> FALSE,
     seen |-> [qid |-> None, user |-> None], body_read |-> 0,
     filename |-> "", file |-> NoFile, fs_ops |-> <<>>,
     response |-> NotResponse(NoData),
     send_body |-> TRUE, data |-> NoData, ctype |-> "", clen |-> 0,
     items |-> {}, head |-> <<>>, rest |-> {},
     written |-> 0, traceback |-> FALSE,
     exc |-> "none", outer |-> "none", logged |-> FALSE,
     req_logged |-> FALSE, nresp |-> 0, wfail |-> FALSE]

\* the test of end_response() that lets the body be sent
SendsBody(method, resp) ==
    /\ resp.send_body
    /\ method # "HEAD"
    /\ resp.code >= 200
    /\ resp.code \notin {204, 304}

\* _END_EXC_HEADERS had its commas between the strings
EndExcHeadersSeparate ==
    {"Cache-control", "Connection", "Content-type", "Content-length", "Pragma",
     "Server"}

\* _END_EXC_HEADERS: Python joins the adjacent string literals that no comma
\* separates into one string
EndExcHeaders ==
    {"Cache-control", "Connection",
     "Content-type" \o "Content-length" \o "Pragma", "Server"}

\* a or b of Python on strings
Or(a, b) == IF a # "" THEN a ELSE b

\* end_response(): the status line, the headers and the body are written;
\* send_response() logs the request when the log flag is set (the logger is
\* not at the DEBUG level) and sends Server and Date
EndResponse(hr, resp) ==
    LET clen  == IF SendsBody(hr.req.method, resp) THEN PyLen(resp.data) ELSE 0
        ctype == IF resp.ctype # "" THEN resp.ctype
                 ELSE IF hr.cmd # NoCmd /\ hr.cmd.content_type # ""
                 THEN hr.cmd.content_type
                 ELSE "text/plain"
    IN  [hr EXCEPT !.pc = "done", !.code = resp.code,
                   !.nresp = @ + 1,
                   !.req_logged = hr.to_log,
                   !.send_body = resp.send_body, !.data = resp.data,
                   !.ctype = ctype,
                   !.items = HeaderItems(resp),
                   !.head =
                       << <<"Server", "version_string()">>,
                          <<"Date", "date_time_string()">>,
                          <<"Cache-Control",
                            Or(GetHeader(resp, "Cache-control"), "no-cache")>>,
                          <<"Pragma", Or(GetHeader(resp, "Pragma"), "no-cache")>>,
                          <<"Connection",
                            Or(GetHeader(resp, "Connection"), "close")>>,
                          <<"Content-Type", ctype>>,
                          <<"Content-Length", ToString(clen)>> >>,
                   !.rest = {x \in HeaderItems(resp) : x[1] \notin EndExcHeaders},
                   !.clen = clen,
                   !.written = IF clen # 0 THEN EnsureBinary(resp.data) ELSE 0]

\* the response send_error_msgtxt() builds: an HTML page as a text (its
\* charset parameter is not kept)
ErrorResponse(code) ==
    HttpResponse(code, Data(TRUE, Len("<pre>error</pre>"), 0), "text/html", TRUE)

\* the request ends: HttpReqError.report() writes the error response; the
\* finally clause of the execute step clears the query parameters
Respond(hr, code, www) ==
    LET resp == IF www
                THEN AddHeader(ErrorResponse(code), "WWW-Authenticate",
                               "Basic realm")
                ELSE ErrorResponse(code)
    IN  [EndResponse(hr, resp) EXCEPT !.www_auth = www, !.qid = None,
                                      !.query_params = NoItems]

\* the outer handlers of common_req(): a socket.error with ECONNRESET or
\* EPIPE ("reset") returns in silence, every other exception is logged
Outer(hr, e) ==
    [hr EXCEPT !.pc = "done", !.qid = None, !.query_params = NoItems,
               !.outer = e,
               !.logged = (e \notin {"none", "reset"})]

\* the exception a failed write raises
WriteError(wr) == IF wr = "reset" THEN "reset" ELSE "Exception"

\* end_response() when a write to the socket raises
FailedWrite(hr) == [hr EXCEPT !.nresp = @ + 1, !.wfail = TRUE]

\* common_req() when execute() raises HttpReqError: report() writes the
\* response, and a failure of the write goes to the outer handlers
Report(hr, code, www, wr) ==
    IF wr = "ok" THEN Respond(hr, code, www)
    ELSE Outer(FailedWrite(hr), WriteError(wr))

\* common_req() when execute() returns, with an exception of end_response()
\* handled like an exception of execute(): a 500 page is sent after it
FinishCaught(hr, resp, wr) ==
    IF wr = "ok"
    THEN [EndResponse(hr, resp) EXCEPT !.qid = None, !.query_params = NoItems]
    ELSE Outer(FailedWrite(FailedWrite(hr)), WriteError(wr))

\* common_req() when execute() returns: end_response() in the else clause,
\* whose exceptions go to the outer handlers only
Finish(hr, resp, wr) ==
    IF wr = "ok"
    THEN [EndResponse(hr, resp) EXCEPT !.qid = None, !.query_params = NoItems]
    ELSE Outer(FailedWrite(hr), WriteError(wr))

\* common_req() when execute() raises the unexpected exception e:
\* send_exception(500) writes the traceback, a failure of the write is
\* dropped, and the bare raise hands the exception handled last (Python 2:
\* the failure of the write if there was one) to the outer handlers
Unexpected(hr, e, wr) ==
    LET h1 == IF wr = "ok"
              THEN [EndResponse(hr, ErrorResponse(500)) EXCEPT !.traceback = TRUE]
              ELSE FailedWrite(hr)
    IN  Outer([h1 EXCEPT !.exc = e], IF wr = "ok" THEN e ELSE WriteError(wr))

\* data_from_query() after the command is resolved: the log flag, then the
\* authentication gate if the command asks for it
QueryEnter(hr, opts) ==
    LET h1 == [hr EXCEPT !.to_log = hr.cmd.to_log]
    IN  IF hr.cmd.to_auth THEN [h1 EXCEPT !.pc = "auth"]
        ELSE [h1 EXCEPT !.pc = "exec"]

\* data_from_payload() with authenticate() called ahead of the header tests
PayloadEnterAuthFirst(hr, opts) ==
    IF hr.cmd.to_auth THEN [hr EXCEPT !.pc = "auth"]
    ELSE IF PayloadHeaderCheck(hr.req, opts) # 0
    THEN Respond(hr, PayloadHeaderCheck(hr.req, opts), FALSE)
    ELSE [hr EXCEPT !.pc = "exec"]

\* data_from_payload() after the command is resolved: the header tests, then
\* the authentication gate if the command asks for it
PayloadEnter(hr, opts) ==
    IF PayloadHeaderCheck(hr.req, opts) # 0
    THEN Respond(hr, PayloadHeaderCheck(hr.req, opts), FALSE)
    ELSE IF hr.cmd.to_auth THEN [hr EXCEPT !.pc = "auth"]
    ELSE [hr EXCEPT !.pc = "exec"]

\* authenticate() with the missing-header test left out
AuthEnterNoHeaderTest(hr, auth) ==
    LET h1 == [hr EXCEPT !.SERVER = [user |-> None, passwd |-> None],
                         !.auth_called = TRUE]
    IN  IF ~auth.configured THEN [h1 EXCEPT !.pc = "exec"]
        ELSE IF hr.req.auth = None \/ hr.req.auth = "" THEN [h1 EXCEPT !.pc = "exec"]
        ELSE [h1 EXCEPT !.pc = "valid_user"]

\* authenticate() with the "if not _AUTH: return" test left out
AuthEnterAlways(hr, auth) ==
    LET h1 == [hr EXCEPT !.SERVER = [user |-> None, passwd |-> None],
                         !.auth_called = TRUE]
    IN  IF hr.req.auth = None \/ hr.req.auth = "" THEN Respond(h1, 401, TRUE)
        ELSE [h1 EXCEPT !.pc = "valid_user"]

\* the head of authenticate(): the identity of the last request is dropped
\* from the server variables; nothing more is done without a credential
\* store; a missing Authorization header raises unauthorized()
AuthEnter(hr, auth) ==
    LET h1 == [hr EXCEPT !.SERVER = [user |-> None, passwd |-> None],
                         !.auth_called = TRUE]
    IN  IF ~auth.configured THEN [h1 EXCEPT !.pc = "exec"]
        ELSE IF hr.req.auth = None \/ hr.req.auth = "" THEN Respond(h1, 401, TRUE)
        ELSE [h1 EXCEPT !.pc = "valid_user"]

(***************************************************************************)
(* Server lifecycle                                                        *)
(***************************************************************************)
\* the main thread before init()
MainInit == [todo |-> {}, served |-> FALSE, err |-> "none", why |-> "none"]

\* no sigterm_handler() is running and none has run
SigInit == [pc |-> "idle", todo |-> {}, n |-> 0, raised |-> FALSE]

\* no callback has been called
NoCalls == [x \in {} |-> 0]

\* the number of calls of the callback cb of the command id
Count(c, cb, id) == IF <<cb, id>> \in DOMAIN c THEN c[<<cb, id>>] ELSE 0

\* one more call of the callback cb of the command id
Called(c, cb, id) ==
    [x \in DOMAIN c \cup {<<cb, id>>} |-> IF x = <<cb, id>> THEN Count(c, cb, id) + 1
                                         ELSE c[x]]

\* what a callback of the application does
CallbackOutcomes == {"return", "raise"}

(***************************************************************************)
(* Actions                                                                 *)
(***************************************************************************)
\* register(): one call of the startup code
Register(inp) ==
    /\ phase = "registering"
    /\ nregs < MaxRegs
    /\ LET st == RegisterResult(inp, nregs + 1, COMMANDS, NCMD, RCMD)
       IN  /\ COMMANDS' = st.C
           /\ NCMD' = st.N
           /\ RCMD' = st.R
           /\ lastReg' = [inp |-> inp, exc |-> st.exc,
                          dup |-> DupAtCall(inp, COMMANDS)]
    /\ nregs' = nregs + 1
    /\ UNCHANGED <<AUTH, OPTIONS, phase, h, lifevars>>

\* init() up to its safe_init loop: the options are merged over the defaults
\* and the credential store is loaded when auth_basic_file is set
ServerInit(auth_basic_file, opts) ==
    /\ phase = "registering"
    /\ OPTIONS' = opts
    /\ AUTH' = NewAuth(auth_basic_file)
    /\ phase' = "init"
    /\ main' = [main EXCEPT !.todo = DOMAIN COMMANDS]
    /\ UNCHANGED <<COMMANDS, NCMD, RCMD, nregs, lastReg, h, KILLED,
                   HTTP_SERVER, sig, calls>>

\* common_req() up to the first access to the shared gate: the handler is
\* reset, the query decoded by _pathify(), the command resolved and the
\* tests that precede authenticate() made
BeginRequest(t, req) ==
    /\ phase = "serving"
    /\ h[t].pc \in {"idle", "done"}
    /\ \E r \in (IF req.path = None THEN {[cmd |-> NoCmd, qid |-> None]}
                 ELSE Resolve(req.method, req.path, NCMD, RCMD)) :
           LET h0 == [HReset EXCEPT !.req = req, !.cmd = r.cmd, !.qid = r.qid,
                                    !.query_params =
                                        IF req.path # None /\ req.query # <<>>
                                        THEN QuerylistToDict(req.query)
                                        ELSE NoItems]
           IN  h' = [h EXCEPT ![t] =
                        IF req.path = None THEN Respond(h0, 400, FALSE)
                        ELSE IF r.cmd = NoCmd THEN Respond(h0, 404, FALSE)
                        ELSE IF req.method \in QueryMethods
                        THEN QueryEnter(h0, OPTIONS)
                        ELSE PayloadEnter(h0, OPTIONS)]
    /\ UNCHANGED <<COMMANDS, NCMD, RCMD, nregs, lastReg, AUTH, OPTIONS, phase,
                 lifevars>>

\* authenticate(), lines 749-757
AuthEnterStep(t) ==
    /\ h[t].pc = "auth"
    /\ h' = [h EXCEPT ![t] = AuthEnter(h[t], AUTH)]
    /\ UNCHANGED <<COMMANDS, NCMD, RCMD, nregs, lastReg, AUTH, OPTIONS, phase,
                 lifevars>>

\* valid_authorization() up to the write of self.user
ValidUser(t) ==
    /\ h[t].pc = "valid_user"
    /\ LET a == h[t].req.auth
       IN  IF AuthNoSpace(a)
           THEN /\ h' = [h EXCEPT ![t] = Unexpected(h[t], "Exception", "ok")]
                /\ AUTH' = AUTH
           ELSE IF AuthNotBasic(a)
           THEN /\ h' = [h EXCEPT ![t] = [h[t] EXCEPT !.allowed = FALSE,
                                                      !.pc = "check_none"]]
                /\ AUTH' = AUTH
           ELSE IF AuthDecoded(a) = None
           THEN /\ h' = [h EXCEPT ![t] = Unexpected(h[t], "Exception", "ok")]
                /\ AUTH' = AUTH
           ELSE /\ AUTH' = [AUTH EXCEPT !.user = AuthUser(a)]
                /\ h' = [h EXCEPT ![t] = [h[t] EXCEPT !.pc = "valid_passwd"]]
    /\ UNCHANGED <<COMMANDS, NCMD, RCMD, nregs, lastReg, OPTIONS, phase,
                 lifevars>>

\* valid_authorization() from the write of self.passwd to its return
ValidPasswd(t) ==
    /\ h[t].pc = "valid_passwd"
    /\ LET a == h[t].req.auth
       IN  /\ AUTH' = [AUTH EXCEPT !.passwd = AuthPasswd(a)]
           /\ h' = [h EXCEPT ![t] =
                       [h[t] EXCEPT !.allowed = SecretMatches(AuthUser(a), AuthPasswd(a)),
                                    !.pc = "check_none"]]
    /\ UNCHANGED <<COMMANDS, NCMD, RCMD, nregs, lastReg, OPTIONS, phase,
                 lifevars>>

\* authenticate(), line 761: the request is let through when the gate holds
\* no user or no password
CheckNone(t) ==
    /\ h[t].pc = "check_none"
    /\ h' = [h EXCEPT ![t] =
                IF AUTH.user = None \/ AUTH.passwd = None
                THEN [h[t] EXCEPT !.pc = "exec"]
                ELSE [h[t] EXCEPT !.pc = "set_user"]]
    /\ UNCHANGED <<COMMANDS, NCMD, RCMD, nregs, lastReg, AUTH, OPTIONS, phase,
                 lifevars>>

\* authenticate(), line 764
SetUser(t) ==
    /\ h[t].pc = "set_user"
    /\ h' = [h EXCEPT ![t] = [h[t] EXCEPT !.SERVER.user = AUTH.user,
                                          !.pc = "set_passwd"]]
    /\ UNCHANGED <<COMMANDS, NCMD, RCMD, nregs, lastReg, AUTH, OPTIONS, phase,
                 lifevars>>

\* authenticate(), line 765
SetPasswd(t) ==
    /\ h[t].pc = "set_passwd"
    /\ h' = [h EXCEPT ![t] = [h[t] EXCEPT !.SERVER.passwd = AUTH.passwd,
                                          !.pc = "check_users"]]
    /\ UNCHANGED <<COMMANDS, NCMD, RCMD, nregs, lastReg, AUTH, OPTIONS, phase,
                 lifevars>>

\* authenticate(), lines 767-771: the allow-list test on the gate's user, then
\* the result of valid_authorization()
CheckUsers(t) ==
    /\ h[t].pc = "check_users"
    /\ LET users == {h[t].cmd.auth_users[i] : i \in 1 .. Len(h[t].cmd.auth_users)}
       IN  h' = [h EXCEPT ![t] =
                    IF users # {} /\ AUTH.user \notin users
                    THEN Respond(h[t], 401, TRUE)
                    ELSE IF ~h[t].allowed THEN Respond(h[t], 401, TRUE)
                    ELSE [h[t] EXCEPT !.pc = "exec"]]
    /\ UNCHANGED <<COMMANDS, NCMD, RCMD, nregs, lastReg, AUTH, OPTIONS, phase,
                 lifevars>>

\* what the application's handler does: return a value or raise
Returns(value) == [kind |-> "return", exc |-> "none", value |-> value]
Raises(e)      == [kind |-> "raise", exc |-> e, value |-> NotResponse(NoData)]

\* the handler returns a short string or raises an exception
HandlerOutcomes ==
    { Returns(NotResponse(Data(FALSE, Len("pong"), 0))), Raises("Exception") }

\* the headers a handler sets on the response it returns
CallerHeaders(resp) ==
    AddHeader(AddHeader(AddHeader(AddHeader(AddHeader(AddHeader(resp,
        "Cache-Control", "max-age=60"), "Pragma", "public"),
        "Connection", "keep-alive"), "Content-Length", "99"),
        "Server", "mine"), "X-Trace", "1")

\* the handler may also return a text with a character outside ASCII or an
\* HttpResponse of its own, or raise a socket.error: with ECONNRESET or EPIPE
\* ("reset") or with another errno ("socket")
AllHandlerOutcomes ==
    HandlerOutcomes \cup
    { Returns(NotResponse(Data(TRUE, Len("ab"), 1))),
      Returns(CallerHeaders(HttpResponse(200, Data(FALSE, Len("abc"), 0),
                                         "Text/Plain; charset=latin-1", TRUE))),
      Returns(HttpResponse(200, Data(FALSE, Len("abc"), 0), "", FALSE)),
      Returns(HttpResponse(204, Data(FALSE, Len("abc"), 0), "", TRUE)),
      Raises("reset"), Raises("socket") }

\* the file static_file() finds: a readable regular file
Files == { FileState(TRUE, TRUE, 55, Len("ab"), "text/plain") }

\* the file may also be missing, unreadable, of another age or type
AllFiles ==
    Files \cup
    { NoFile,
      FileState(TRUE, FALSE, 55, Len("ab"), "text/plain"),
      FileState(TRUE, TRUE, 50, Len("abc"), "image/svg") }

\* what happens when the response is written to the socket: it is written,
\* or the write raises socket.error with ECONNRESET or EPIPE ("reset"), or
\* another exception ("error")
WriteOutcomes == {"ok", "reset", "error"}

\* the surroundings of one execute step: the handler, the file and the socket
Env(handler, file, write) == [handler |-> handler, file |-> file, write |-> write]

\* a client that stays connected
Envs == { Env(hd, f, "ok") : hd \in HandlerOutcomes, f \in Files }

AllEnvs ==
    { Env(hd, f, wr) : hd \in AllHandlerOutcomes, f \in AllFiles,
                       wr \in WriteOutcomes }

\* build_response() and add_data() in the else clause of common_req(): a
\* value that is not an HttpResponse becomes the data of a new one, which
\* do_HEAD leaves without data and with send_body off
BuildResponse(method, value) ==
    IF value.http THEN value
    ELSE IF method = "HEAD" THEN HttpResponse(200, NoData, "", FALSE)
    ELSE HttpResponse(200, value.data, "", TRUE)

\* the rest of the execute step and the end of common_req(): the body is
\* read and decoded (payload methods), the handler or the static responder
\* is run and the response sent
ExecuteEnv(t, env) ==
    /\ h[t].pc = "exec"
    /\ LET hr   == h[t]
           clen == ParseClen(hr.req.clen).n
           seen == [qid |-> hr.qid, user |-> hr.SERVER.user]
       IN  \/ /\ hr.req.method \in PayloadMethods
              /\ clen > 0
              /\ h' = [h EXCEPT ![t] =
                          Report([hr EXCEPT !.body_read = clen], 415, FALSE,
                                 env.write)]
           \/ /\ hr.req.method \in QueryMethods
              /\ hr.cmd.static
              /\ LET called   == hr.cmd.handler # ""
                     h1       == [hr EXCEPT !.handler_called = called,
                                            !.seen = seen]
                     response == IF called THEN env.handler.value
                                 ELSE NotResponse(NoData)
                     sf       == StaticFile(hr, response, env.file)
                     h2       == [h1 EXCEPT !.response = response,
                                            !.filename = sf.filename,
                                            !.file = env.file,
                                            !.fs_ops = sf.ops]
                 IN  h' = [h EXCEPT ![t] =
                              IF called /\ env.handler.kind = "raise"
                              THEN Unexpected(h1, env.handler.exc, env.write)
                              ELSE IF sf.err
                              THEN Report(h2, sf.code, FALSE, env.write)
                              ELSE Finish(h2, sf.resp, env.write)]
           \/ /\ ~(hr.req.method \in QueryMethods /\ hr.cmd.static)
              /\ LET h1 == [hr EXCEPT !.handler_called = TRUE,
                                      !.seen = seen,
                                      !.body_read =
                                          IF hr.req.method \in PayloadMethods
                                          THEN clen ELSE 0]
                 IN  h' = [h EXCEPT ![t] =
                              IF env.handler.kind = "raise"
                              THEN Unexpected(h1, env.handler.exc, env.write)
                              ELSE Finish(h1, BuildResponse(hr.req.method,
                                                            env.handler.value),
                                          env.write)]
    /\ UNCHANGED <<COMMANDS, NCMD, RCMD, nregs, lastReg, AUTH, OPTIONS, phase,
                 lifevars>>

\* the execute step with a client that stays connected
Execute(t) == \E env \in Envs : ExecuteEnv(t, env)

\* the response do_OPTIONS() builds
OptionsResponse ==
    AddHeader(AddHeader(AddHeader(AddHeader(
        HttpResponse(204, NoData, "", TRUE),
        "Access-Control-Allow-Origin", "*"),
        "Access-Control-Allow-Methods", "OPTIONS, POST"),
        "Access-Control-Allow-Headers",
        "Origin, X-Requested-With, Content-Type, Accept, Authorization"),
        "Access-Control-Max-Age", ToString(1728000))

\* what is left of HReset when the handler object is not reset: the
\* command, the log flag and the server variables of the request before
NotReset(hr, req) ==
    [HReset EXCEPT !.req = req, !.cmd = hr.cmd, !.to_log = hr.to_log,
                   !.SERVER = hr.SERVER]

\* do_OPTIONS() looking the path up in the registry first
DoOptionsRouted(t, req, wr) ==
    /\ phase = "serving"
    /\ h[t].pc \in {"idle", "done"}
    /\ req.method = "OPTIONS"
    /\ LET h0 == NotReset(h[t], req)
           found == \E r \in Resolve("GET", req.path, NCMD, RCMD) : r.cmd # NoCmd
       IN  h' = [h EXCEPT ![t] =
                    IF wr # "ok"
                    THEN [FailedWrite(h0) EXCEPT !.pc = "done",
                                                 !.outer = WriteError(wr)]
                    ELSE IF found THEN EndResponse(h0, OptionsResponse)
                    ELSE EndResponse(h0, ErrorResponse(404))]
    /\ UNCHANGED <<COMMANDS, NCMD, RCMD, nregs, lastReg, AUTH, OPTIONS, phase,
                   lifevars>>

\* do_OPTIONS(): the response is built and sent at once, without
\* common_req(): the handler object is not reset, and an exception of the
\* write leaves do_OPTIONS()
DoOptions(t, req, wr) ==
    /\ phase = "serving"
    /\ h[t].pc \in {"idle", "done"}
    /\ req.method = "OPTIONS"
    /\ LET h0 == NotReset(h[t], req)
       IN  h' = [h EXCEPT ![t] =
                    IF wr # "ok"
                    THEN [FailedWrite(h0) EXCEPT !.pc = "done",
                                                 !.outer = WriteError(wr)]
                    ELSE EndResponse(h0, OptionsResponse)]
    /\ UNCHANGED <<COMMANDS, NCMD, RCMD, nregs, lastReg, AUTH, OPTIONS, phase,
                   lifevars>>

(***************************************************************************)
(* Actions of the server lifecycle                                         *)
(***************************************************************************)
\* one iteration of the safe_init loop of init(), on the key k of _COMMANDS
SafeInit(k, out) ==
    /\ phase = "init"
    /\ k \in main.todo
    /\ IF COMMANDS[k].safe_init
       THEN /\ calls' = Called(calls, "safe_init", COMMANDS[k].id)
            /\ IF out = "raise"
               THEN /\ phase' = "raised"
                    /\ main' = [main EXCEPT !.todo = {}, !.err = "callback"]
               ELSE /\ phase' = phase
                    /\ main' = [main EXCEPT !.todo = @ \ {k}]
       ELSE /\ out = "return"
            /\ calls' = calls
            /\ phase' = phase
            /\ main' = [main EXCEPT !.todo = @ \ {k}]
    /\ UNCHANGED <<COMMANDS, NCMD, RCMD, nregs, lastReg, AUTH, OPTIONS, h,
                   KILLED, HTTP_SERVER, sig>>

\* the end of init(): the loop is over, the signal handlers are installed
InitDone ==
    /\ phase = "init"
    /\ main.todo = {}
    /\ phase' = "initialized"
    /\ UNCHANGED <<COMMANDS, NCMD, RCMD, nregs, lastReg, AUTH, OPTIONS, h,
                   lifevars>>

\* the head of run() with the kill flag cleared
RunStartResetsKill(ok) ==
    /\ phase = "initialized"
    /\ KILLED' = FALSE
    /\ IF ok
       THEN /\ HTTP_SERVER' = "open"
            /\ phase' = "starting"
            /\ main' = [main EXCEPT !.todo = DOMAIN COMMANDS]
       ELSE /\ HTTP_SERVER' = HTTP_SERVER
            /\ phase' = "raised"
            /\ main' = [main EXCEPT !.err = "server"]
    /\ UNCHANGED <<COMMANDS, NCMD, RCMD, nregs, lastReg, AUTH, OPTIONS, h,
                   sig, calls>>

\* the head of run(): the connection server is made (or its constructor
\* raises) and bound to _HTTP_SERVER
RunStart(ok) ==
    /\ phase = "initialized"
    /\ IF ok
       THEN /\ HTTP_SERVER' = "open"
            /\ phase' = "starting"
            /\ main' = [main EXCEPT !.todo = DOMAIN COMMANDS]
       ELSE /\ HTTP_SERVER' = HTTP_SERVER
            /\ phase' = "raised"
            /\ main' = [main EXCEPT !.err = "server"]
    /\ UNCHANGED <<COMMANDS, NCMD, RCMD, nregs, lastReg, AUTH, OPTIONS, h,
                   KILLED, sig, calls>>

\* one iteration of the at_start loop of run(), on the key k of _COMMANDS
AtStart(k, out) ==
    /\ phase = "starting"
    /\ k \in main.todo
    /\ IF COMMANDS[k].at_start
       THEN /\ calls' = Called(calls, "at_start", COMMANDS[k].id)
            /\ IF out = "raise"
               THEN /\ phase' = "raised"
                    /\ main' = [main EXCEPT !.todo = {}, !.err = "callback"]
               ELSE /\ phase' = phase
                    /\ main' = [main EXCEPT !.todo = @ \ {k}]
       ELSE /\ out = "return"
            /\ calls' = calls
            /\ phase' = phase
            /\ main' = [main EXCEPT !.todo = @ \ {k}]
    /\ UNCHANGED <<COMMANDS, NCMD, RCMD, nregs, lastReg, AUTH, OPTIONS, h,
                   KILLED, HTTP_SERVER, sig>>

\* run() going to its serve loop before the at_start loop is over
WillServeEarly ==
    /\ phase = "starting"
    /\ phase' = "loop"
    /\ main' = [main EXCEPT !.todo = {}]
    /\ UNCHANGED <<COMMANDS, NCMD, RCMD, nregs, lastReg, AUTH, OPTIONS, h,
                   KILLED, HTTP_SERVER, sig, calls>>

\* run() between its at_start loop and its serve loop ("will now serve")
WillServe ==
    /\ phase = "starting"
    /\ main.todo = {}
    /\ phase' = "loop"
    /\ main' = [main EXCEPT !.todo = {}]
    /\ UNCHANGED <<COMMANDS, NCMD, RCMD, nregs, lastReg, AUTH, OPTIONS, h,
                   KILLED, HTTP_SERVER, sig, calls>>

\* "while not _KILLED": run() returns or calls serve_until_killed()
LoopTest ==
    /\ phase = "loop"
    /\ IF KILLED
       THEN /\ phase' = "returned"
            /\ main' = main
       ELSE /\ phase' = "serving"
            /\ main' = [main EXCEPT !.served = TRUE]
    /\ UNCHANGED <<COMMANDS, NCMD, RCMD, nregs, lastReg, AUTH, OPTIONS, h,
                   KILLED, HTTP_SERVER, sig, calls>>

\* the except clause of the serve loop with EBADF let through whatever the
\* kill flag is
ToleratedLax(out, killed) == out \in {"return", "EINTR", "EBADF"}

\* the serve loop of run() goes on after a serve_until_killed() call that
\* returns, that raises EINTR, or that raises EBADF with the kill flag set
Tolerated(out, killed) ==
    out \in {"return", "EINTR"} \/ (out = "EBADF" /\ killed)

\* the end of a serve_until_killed() call, where EBADF is never let through
ServeEndStrict(out) ==
    /\ phase = "serving"
    /\ out = "return" => HTTP_SERVER \in {"killed", "closed"}
    /\ out = "EBADF" => HTTP_SERVER = "closed"
    /\ IF out \in {"return", "EINTR"}
       THEN phase' = "loop" /\ main' = [main EXCEPT !.why = out]
       ELSE phase' = "raised" /\ main' = [main EXCEPT !.err = out, !.why = out]
    /\ UNCHANGED <<COMMANDS, NCMD, RCMD, nregs, lastReg, AUTH, OPTIONS, h,
                   KILLED, HTTP_SERVER, sig, calls>>

\* the end of a serve_until_killed() call: it returns once the server is
\* killed, or raises; EINTR is let through, EBADF (the socket is closed) too
\* when the kill flag is set, any other error leaves run()
ServeEnd(out) ==
    /\ phase = "serving"
    /\ out = "return" => HTTP_SERVER \in {"killed", "closed"}
    /\ out = "EBADF" => HTTP_SERVER = "closed"
    /\ IF Tolerated(out, KILLED)
       THEN phase' = "loop" /\ main' = [main EXCEPT !.why = out]
       ELSE phase' = "raised" /\ main' = [main EXCEPT !.err = out, !.why = out]
    /\ UNCHANGED <<COMMANDS, NCMD, RCMD, nregs, lastReg, AUTH, OPTIONS, h,
                   KILLED, HTTP_SERVER, sig, calls>>

\* a serve_until_killed() call raises EBADF although sigterm_handler() has
\* not closed the server (the descriptor was lost in another way)
ServeFault ==
    /\ phase = "serving"
    /\ HTTP_SERVER # "closed"
    /\ IF Tolerated("EBADF", KILLED)
       THEN phase' = "loop" /\ main' = [main EXCEPT !.why = "EBADF"]
       ELSE /\ phase' = "raised"
            /\ main' = [main EXCEPT !.err = "EBADF", !.why = "EBADF"]
    /\ UNCHANGED <<COMMANDS, NCMD, RCMD, nregs, lastReg, AUTH, OPTIONS, h,
                   KILLED, HTTP_SERVER, sig, calls>>

\* how a serve_until_killed() call can end
ServeOutcomes == {"return", "EINTR", "EBADF", "error"}

\* stop() or a shutdown signal: sigterm_handler() is entered
SigStart ==
    /\ phase # "registering"
    /\ sig.pc = "idle"
    /\ sig.n < MaxSignals
    /\ sig' = [sig EXCEPT !.pc = "at_stop", !.todo = DOMAIN COMMANDS,
                          !.n = @ + 1]
    /\ UNCHANGED <<COMMANDS, NCMD, RCMD, nregs, lastReg, AUTH, OPTIONS, phase,
                   h, KILLED, HTTP_SERVER, main, calls>>

\* one iteration of the at_stop loop of sigterm_handler(), on the key k of
\* _COMMANDS; an exception of the callback ends the handler, and reaches
\* the main thread (to_main) when the handler runs as its signal handler
AtStop(k, out, to_main) ==
    /\ sig.pc = "at_stop"
    /\ k \in sig.todo
    /\ IF COMMANDS[k].at_stop
       THEN /\ calls' = Called(calls, "at_stop", COMMANDS[k].id)
            /\ IF out = "raise"
               THEN /\ sig' = [sig EXCEPT !.pc = "idle", !.todo = {},
                                          !.raised = TRUE]
                    /\ IF to_main /\ phase \notin {"returned", "raised"}
                       THEN /\ phase' = "raised"
                            /\ main' = [main EXCEPT !.todo = {},
                                                    !.err = "at_stop"]
                       ELSE /\ phase' = phase
                            /\ main' = main
               ELSE /\ sig' = [sig EXCEPT !.todo = @ \ {k}]
                    /\ ~to_main
                    /\ phase' = phase
                    /\ main' = main
       ELSE /\ out = "return"
            /\ ~to_main
            /\ calls' = calls
            /\ sig' = [sig EXCEPT !.todo = @ \ {k}]
            /\ phase' = phase
            /\ main' = main
    /\ UNCHANGED <<COMMANDS, NCMD, RCMD, nregs, lastReg, AUTH, OPTIONS, h,
                   KILLED, HTTP_SERVER>>

\* sigterm_handler() setting the kill flag before its at_stop loop is over
SigFlagEarly ==
    /\ sig.pc = "at_stop"
    /\ KILLED' = TRUE
    /\ sig' = [sig EXCEPT !.pc = "flagged", !.todo = {}]
    /\ UNCHANGED <<COMMANDS, NCMD, RCMD, nregs, lastReg, AUTH, OPTIONS, phase,
                   h, HTTP_SERVER, main, calls>>

\* sigterm_handler() after its at_stop loop: _KILLED = True
SigFlag ==
    /\ sig.pc = "at_stop"
    /\ sig.todo = {}
    /\ KILLED' = TRUE
    /\ sig' = [sig EXCEPT !.pc = "flagged", !.todo = {}]
    /\ UNCHANGED <<COMMANDS, NCMD, RCMD, nregs, lastReg, AUTH, OPTIONS, phase,
                   h, HTTP_SERVER, main, calls>>

\* "if _HTTP_SERVER: _HTTP_SERVER.kill()": without a server the handler ends
SigKill ==
    /\ sig.pc = "flagged"
    /\ IF HTTP_SERVER = "none"
       THEN /\ sig' = [sig EXCEPT !.pc = "idle"]
            /\ HTTP_SERVER' = HTTP_SERVER
       ELSE /\ sig' = [sig EXCEPT !.pc = "killed"]
            /\ HTTP_SERVER' = IF HTTP_SERVER = "open" THEN "killed"
                              ELSE HTTP_SERVER
    /\ UNCHANGED <<COMMANDS, NCMD, RCMD, nregs, lastReg, AUTH, OPTIONS, phase,
                   h, KILLED, main, calls>>

\* _HTTP_SERVER.server_close(), the end of sigterm_handler()
SigClose ==
    /\ sig.pc = "killed"
    /\ HTTP_SERVER' = "closed"
    /\ sig' = [sig EXCEPT !.pc = "idle"]
    /\ UNCHANGED <<COMMANDS, NCMD, RCMD, nregs, lastReg, AUTH, OPTIONS, phase,
                   h, KILLED, main, calls>>

(***************************************************************************)
(* Startup: the registrations of an application, then init()               *)
(***************************************************************************)
StartupScript ==
    << RegInput("ping", <<"GET", "POST">>, NoName, FALSE, "", AuthBool(FALSE), TRUE),
       RegInput("secret", <<"GET", "POST">>, NoName, FALSE, "", AuthBool(TRUE), TRUE),
       RegInput("item_all", <<"GET">>, Literal("item/all"), FALSE, "",
                AuthBool(FALSE), TRUE),
       RegInput("item_any", <<"GET", "POST">>, Pattern("item/.*"), FALSE, "",
                AuthBool(FALSE), FALSE),
       RegInput("item_some", <<"GET">>, Pattern("item/.+"), FALSE, "",
                AuthBool(FALSE), TRUE),
       RegInput("item_id", <<"GET", "POST">>, Pattern("item/(?P<id>[0-9]+)"),
                FALSE, "", AuthBool(TRUE), TRUE),
       RegInput("files", <<"GET">>, Pattern("static/.*"), TRUE, "/srv",
                AuthBool(FALSE), TRUE),
       RegStatic(RegInput("doc", <<"GET", "HEAD">>, Pattern("doc/(.*)"), TRUE,
                          "/srv/www/", AuthBool(FALSE), TRUE),
                 "\\1", "utf-8", "Text/HTML"),
       RegStatic(RegInput("", <<"GET">>, Pattern("raw/(.*)"), TRUE,
                          "/srv/www", AuthBool(FALSE), TRUE),
                 "\\1", "utf-8", ""),
       RegStatic(RegInput("css", <<"GET">>, Pattern("css/.*"), TRUE,
                          "/srv/www", AuthBool(FALSE), TRUE),
                 "", "utf-8", "__MAGIC__") >>

RECURSIVE RegisterAll(_, _, _)
\* the registry after the first i register() calls of the script
RegisterAll(script, i, st) ==
    IF i > Len(script) THEN st
    ELSE LET r == RegisterResult(script[i], i, st.C, st.N, st.R)
         IN  RegisterAll(script, i + 1, r)

StartupRegistry ==
    RegisterAll(StartupScript, 1, RegState(EmptyMap, EmptyMap, EmptyMap, "none"))

\* _OPTIONS['max_body_size'] and the content types the handler class permits
\* (permit_ctype, forbid_multipart)
Options(ctypes, multipart) ==
    [max_body_size |-> MaxBodySize, allowed_ctypes |-> ctypes,
     allowed_multipart |-> multipart]

OptionSets ==
    { Options({}, TRUE),
      Options({"application/json"}, FALSE) }

(***************************************************************************)
(* The requests of the model                                               *)
(***************************************************************************)
BasicAuth(user, passwd) == "Basic " \o B64Encode(user \o ":" \o passwd)

AuthHeaders ==
    { None, "Digest abc", "Basic", "Basic abc",
      BasicAuth("alice", "wonder"), BasicAuth("alice", "guess"),
      BasicAuth("bob", "builder"), BasicAuth("eve", "x") }

ClenHeaders ==
    { None, "", "abc", "-1", "0", "1",
      ToString(MaxBodySize), ToString(MaxBodySize + 1) }

QueryRequests ==
    { Request("GET", p, a, None, None, None) :
        p \in {"secret", "item/12"}, a \in AuthHeaders }
    \cup
    { Request("GET", p, a, None, None, None) :
        p \in {"ping", "item/all", "item/x", "nope", "static/a", None},
        a \in {None, BasicAuth("alice", "guess")} }

\* Transfer-Encoding, Content-Type and Content-Length of the payload requests
PayloadHeaders ==
    { <<te, ct, cl>> :
        te \in {None},
        ct \in {None, "Application/JSON", "text/xml"},
        cl \in ClenHeaders }
    \cup
    { <<"Identity", None, "1">> }
    \cup
    { <<te, ct, cl>> :
        te \in {None, "chunked"},
        ct \in {None, "multipart/form-data; boundary=x"},
        cl \in {None, "abc", "1", ToString(MaxBodySize + 1)} }

PayloadRequests ==
    { Request("POST", "secret", a, x[1], x[2], x[3]) :
        a \in {None, "Digest abc", BasicAuth("alice", "wonder"),
               BasicAuth("alice", "guess")},
        x \in PayloadHeaders }
    \cup
    { Request("POST", p, None, x[1], x[2], x[3]) :
        p \in {"ping"}, x \in PayloadHeaders }
    \cup
    { Request("POST", p, BasicAuth("bob", "builder"), None, None, "1") :
        p \in {"item/12", "nope"} }

Requests == QueryRequests \cup PayloadRequests

\* the requests for static resources
StaticRequests ==
    { WithIms(Request(m, p, None, None, None, None), i) :
        m \in {"GET", "HEAD"},
        p \in {"doc/a.txt", "doc/./b/../a.txt", "doc/", "doc/../wwwevil/x",
               "doc/../../etc/passwd", "doc//etc/passwd"},
        i \in {None, HttpDate(4), HttpDate(5) \o " ; length=2",
               HttpDate(6), "yesterday"} }
    \cup
    { WithIms(Request("GET", p, None, None, None, None), i) :
        p \in {"raw/a.txt", "raw/../www/a.txt", "raw/..", "css/a.css",
               "static/a", "static/../../tmp/x"},
        i \in {None, HttpDate(5)} }

\* the requests of SpecIO: static resources and a few handler routes
IORequests ==
    StaticRequests \cup
    { Request(m, "ping", None, None, None, None) : m \in {"GET", "HEAD", "POST"} }
    \cup
    { Request("POST", "ping", None, None, None, "1"),
      Request("GET", "secret", "Basic", None, None, None),
      Request("GET", "secret", BasicAuth("alice", "wonder"), None, None, None),
      Request("GET", "nope", None, None, None, None),
      Request("GET", "item/x", None, None, None, None),
      Request("POST", "item/x", None, None, None, None) }

\* the requests of the concurrent connections
ConcRequests ==
    { Request("GET", "secret", a, None, None, None) :
        a \in {"Digest abc", BasicAuth("alice", "wonder"),
               BasicAuth("bob", "builder")} }

\* the (key, value) pairs of the query strings; a pair may lack its value
Pairs ==
    { <<"a", "x">>, <<"a", "y">>, <<"a[]", "x">>, <<"a[][]", "x">>,
      <<"a[][]", "y">>, <<"____ts", "1">>, <<"b">> }

\* the query strings of at most MaxPairs pairs
Queries == UNION { [1 .. n -> Pairs] : n \in 1 .. MaxPairs }

\* the requests of SpecCtx: a route with every query string, and one
\* request of each other kind
CtxRequests ==
    { WithQuery(Request("GET", "ping", None, None, None, None), q) :
        q \in Queries }
    \cup
    { Request("GET", "ping", None, None, None, None),
      Request("GET", "nope", None, None, None, None),
      Request("GET", "doc/a.txt", None, None, None, None),
      Request("GET", "item/x", None, None, None, None),
      Request("GET", "secret", BasicAuth("alice", "wonder"), None, None, None),
      Request("GET", "secret", "Digest abc", None, None, None),
      Request("POST", "ping", None, None, None, "1") }

\* the OPTIONS requests
OptionsRequests ==
    { Request("OPTIONS", p, a, None, None, None) :
        p \in {"ping", "secret", "nope"},
        a \in {None, "Digest abc", BasicAuth("alice", "wonder")} }

(***************************************************************************)
(* Specifications                                                          *)
(***************************************************************************)
\* SpecReg: the registration calls of the startup code
InitReg ==
    /\ COMMANDS = EmptyMap
    /\ NCMD = EmptyMap
    /\ RCMD = EmptyMap
    /\ nregs = 0
    /\ lastReg = NoReg
    /\ AUTH = NewAuth(FALSE)
    /\ OPTIONS = Options({}, TRUE)
    /\ phase = "registering"
    /\ h = [t \in Threads |-> HReset]
    /\ KILLED = FALSE
    /\ HTTP_SERVER = "none"
    /\ main = MainInit
    /\ sig = SigInit
    /\ calls = NoCalls

NextReg ==
    \/ \E inp \in RegInputs : Register(inp)
    \/ \E f \in BOOLEAN, o \in OptionSets : ServerInit(f, o)

SpecReg == InitReg /\ [][NextReg]_vars

\* the state after the startup script, init() and run() up to its first
\* call of serve_until_killed() (no command of the script has a callback)
Served(configured, opts) ==
    /\ COMMANDS = StartupRegistry.C
    /\ NCMD = StartupRegistry.N
    /\ RCMD = StartupRegistry.R
    /\ nregs = Len(StartupScript)
    /\ lastReg = [inp |-> StartupScript[Len(StartupScript)], exc |-> "none",
                  dup |-> FALSE]
    /\ AUTH = NewAuth(configured)
    /\ OPTIONS = opts
    /\ phase = "serving"
    /\ h = [t \in Threads |-> HReset]
    /\ KILLED = FALSE
    /\ HTTP_SERVER = "open"
    /\ main = [MainInit EXCEPT !.served = TRUE]
    /\ sig = SigInit
    /\ calls = NoCalls

\* the steps of the request a thread is handling
RequestStep(t) ==
    \/ AuthEnterStep(t)
    \/ ValidUser(t)
    \/ ValidPasswd(t)
    \/ CheckNone(t)
    \/ SetUser(t)
    \/ SetPasswd(t)
    \/ CheckUsers(t)
    \/ Execute(t)

\* Spec: one connection at a time, any request after any other
Init == \E configured \in BOOLEAN, opts \in OptionSets : Served(configured, opts)

Next ==
    \/ \E req \in Requests : BeginRequest(1, req)
    \/ RequestStep(1)

Spec == Init /\ [][Next]_vars

\* SpecConc: concurrent connections on an authenticated route
InitConc == Served(TRUE, Options({}, TRUE))

NextConc ==
    \E t \in Threads :
        \/ \E req \in ConcRequests : BeginRequest(t, req)
        \/ RequestStep(t)

SpecConc == InitConc /\ [][NextConc]_vars

\* SpecIO: one connection, with every handler, file and socket outcome
InitIO == Served(TRUE, Options({}, TRUE))

\* the steps of a request whatever the handler, the file and the socket do
RequestStepIO(t) ==
    \/ AuthEnterStep(t)
    \/ ValidUser(t)
    \/ ValidPasswd(t)
    \/ CheckNone(t)
    \/ SetUser(t)
    \/ SetPasswd(t)
    \/ CheckUsers(t)
    \/ \E env \in AllEnvs : ExecuteEnv(t, env)

NextIO ==
    \/ \E req \in IORequests : BeginRequest(1, req)
    \/ RequestStepIO(1)

SpecIO == InitIO /\ [][NextIO]_vars

\* SpecCtx: successive requests on one handler object, with query strings
\* and OPTIONS requests
InitCtx == \E configured \in BOOLEAN : Served(configured, Options({}, TRUE))

NextCtx ==
    \/ \E req \in CtxRequests : BeginRequest(1, req)
    \/ \E req \in OptionsRequests, wr \in WriteOutcomes : DoOptions(1, req, wr)
    \/ RequestStep(1)

SpecCtx == InitCtx /\ [][NextCtx]_vars

\* SpecLife: the lifecycle of the server, from the last registrations to the
\* return of run(), with stop() or a signal at any time after init() began
LifeScript ==
    << RegCallbacks(RegInput("ping", <<"GET", "POST">>, NoName, FALSE, "",
                             AuthBool(FALSE), TRUE), TRUE, TRUE, TRUE),
       RegInput("plain", <<"GET">>, NoName, FALSE, "", AuthBool(FALSE), TRUE) >>

LifeRegistry ==
    RegisterAll(LifeScript, 1, RegState(EmptyMap, EmptyMap, EmptyMap, "none"))

\* the register() calls left to the startup code
LifeInputs ==
    { RegCallbacks(RegInput("job", <<"GET">>, NoName, FALSE, "",
                            AuthBool(FALSE), TRUE), TRUE, TRUE, TRUE) }

LifeRequests == { Request("GET", "ping", None, None, None, None) }

InitLife ==
    /\ COMMANDS = LifeRegistry.C
    /\ NCMD = LifeRegistry.N
    /\ RCMD = LifeRegistry.R
    /\ nregs = Len(LifeScript)
    /\ lastReg = [inp |-> LifeScript[Len(LifeScript)], exc |-> "none",
                  dup |-> FALSE]
    /\ AUTH = NewAuth(FALSE)
    /\ OPTIONS = Options({}, TRUE)
    /\ phase = "registering"
    /\ h = [t \in Threads |-> HReset]
    /\ KILLED = FALSE
    /\ HTTP_SERVER = "none"
    /\ main = MainInit
    /\ sig = SigInit
    /\ calls = NoCalls

\* the steps of the main thread in init() and run()
MainStep ==
    \/ \E k \in DOMAIN COMMANDS, out \in CallbackOutcomes : SafeInit(k, out)
    \/ InitDone
    \/ \E ok \in BOOLEAN : RunStart(ok)
    \/ \E k \in DOMAIN COMMANDS, out \in CallbackOutcomes : AtStart(k, out)
    \/ WillServe
    \/ LoopTest
    \/ \E out \in ServeOutcomes : ServeEnd(out)

\* the steps of sigterm_handler() once entered
SigStep ==
    \/ \E k \in DOMAIN COMMANDS, out \in CallbackOutcomes, to_main \in BOOLEAN :
           AtStop(k, out, to_main)
    \/ SigFlag
    \/ SigKill
    \/ SigClose

NextLife ==
    \/ \E inp \in LifeInputs : Register(inp)
    \/ ServerInit(FALSE, Options({}, TRUE))
    \/ MainStep
    \/ SigStart
    \/ SigStep
    \/ \E req \in LifeRequests : BeginRequest(1, req)
    \/ Execute(1)

SpecLife == InitLife /\ [][NextLife]_vars

\* SpecFault: the lifecycle with a descriptor that may be lost at any time
NextFault ==
    \/ NextLife
    \/ ServeFault

SpecFault == InitLife /\ [][NextFault]_vars

(***************************************************************************)
(* Properties                                                              *)
(***************************************************************************)
Done(t) == h[t].pc = "done"

\* the request of thread t has a resolved command
Resolved(t) == h[t].pc # "idle" /\ h[t].cmd # NoCmd

\* the request of thread t gets to the authentication step of its method:
\* at once for HEAD/GET/DELETE, after the header tests for PATCH/POST/PUT
ReachesGate(t) ==
    /\ Resolved(t)
    /\ h[t].cmd.to_auth
    /\ \/ h[t].req.method \in QueryMethods
       \/ PayloadHeaderCheck(h[t].req, OPTIONS) = 0

\* the Authorization header is well formed and is refused by the credential
\* check: another scheme than Basic, an unknown user or a wrong password
BadCredentials(a) ==
    /\ a # None
    /\ ~AuthNoSpace(a)
    /\ \/ AuthNotBasic(a)
       \/ /\ AuthDecoded(a) # None
          /\ \/ AuthUser(a) \notin DOMAIN HtpasswdUsers
             \/ ~SecretMatches(AuthUser(a), AuthPasswd(a))

\* the Authorization header is a Basic one that decodes to user:password
BasicDecodable(a) ==
    a # None /\ ~AuthNoSpace(a) /\ ~AuthNotBasic(a) /\ AuthDecoded(a) # None

\* C1: a register() call never rebinds a composite key: every binding of
\* _COMMANDS, _NCMD and _RCMD present before the call is the same after it,
\* every key is bound in exactly one of the literal and pattern tables, and a
\* call made with one of its keys already present raises (ValueError, unless
\* Command.__init__ has already raised before the duplicate test is reached).
C1_RegisterNeverRebinds ==
    [][nregs' = nregs + 1 =>
          /\ \A k \in DOMAIN COMMANDS :
                 k \in DOMAIN COMMANDS' /\ COMMANDS'[k] = COMMANDS[k]
          /\ \A k \in DOMAIN NCMD : k \in DOMAIN NCMD' /\ NCMD'[k] = NCMD[k]
          /\ \A k \in DOMAIN RCMD : k \in DOMAIN RCMD' /\ RCMD'[k] = RCMD[k]
          /\ DOMAIN NCMD' \cap DOMAIN RCMD' = {}
          /\ DOMAIN COMMANDS' = DOMAIN NCMD' \cup DOMAIN RCMD'
          /\ \A k \in DOMAIN NCMD' : NCMD'[k] = COMMANDS'[k]
          /\ \A k \in DOMAIN RCMD' : RCMD'[k] = COMMANDS'[k]
          /\ lastReg'.dup =>
                 /\ lastReg'.exc # "none"
                 /\ ~lastReg'.inp.to_auth.list => lastReg'.exc = "ValueError"
    ]_vars

\* a second registration of a key already bound has been refused
C1_Witness ==
    /\ nregs >= 2
    /\ lastReg.dup
    /\ lastReg.exc = "ValueError"
    /\ \E k \in DOMAIN COMMANDS : COMMANDS[k].id < nregs

\* C2: the command of a request is the literal route 'METHOD /path' when it
\* is registered, even if a pattern route of the method matches; otherwise it
\* is a pattern route of the method that matches the path and no matching
\* pattern route of the method has a longer key; when nothing matches the
\* request ends with 404 and no handler is invoked.
C2_Resolution ==
    \A t \in Threads :
        (h[t].pc # "idle" /\ h[t].req.path # None) =>
            LET m     == h[t].req.method
                path  == h[t].req.path
                exact == m \o " /" \o path
                match == {k \in DOMAIN RCMD :
                             /\ m \in {RCMD[k].op[i] : i \in 1 .. Len(RCMD[k].op)}
                             /\ k = m \o " " \o RCMD[k].name.s
                             /\ ReMatch(RCMD[k].name.s, path)}
            IN  /\ exact \in DOMAIN NCMD => h[t].cmd = NCMD[exact]
                /\ (exact \notin DOMAIN NCMD /\ match # {}) =>
                       \E k \in match :
                           /\ h[t].cmd = RCMD[k]
                           /\ \A j \in match : Len(j) <= Len(k)
                /\ (exact \notin DOMAIN NCMD /\ match = {}) =>
                       /\ h[t].cmd = NoCmd
                       /\ h[t].pc = "done"
                       /\ h[t].code = 404
                       /\ ~h[t].handler_called

\* the literal route wins over a matching pattern and its handler has run
C2_Witness ==
    /\ Done(1)
    /\ h[1].req.method = "GET"
    /\ h[1].req.path = "item/all"
    /\ ReMatch("item/.*", h[1].req.path)
    /\ "GET item/.*" \in DOMAIN RCMD
    /\ h[1].cmd.handler = "item_all"
    /\ h[1].handler_called

C4_BadCredentials401 ==
    \A t \in Threads :
        (AUTH.configured /\ Done(t) /\ ReachesGate(t)
            /\ BadCredentials(h[t].req.auth)) =>
            h[t].code = 401 /\ ~h[t].handler_called

\* C5: a register() call with to_auth given as a list of user names (and
\* otherwise valid arguments and a free key) succeeds and binds a command
\* that requires authentication and carries that list as its allow-list.
C5_RegisterAuthList ==
    (nregs > 0 /\ lastReg.inp.to_auth.list /\ RegValidate(lastReg.inp) = "none"
        /\ ~lastReg.dup) =>
        /\ lastReg.exc = "none"
        /\ \A i \in 1 .. Len(lastReg.inp.op) :
               LET k == MKey(Upper(lastReg.inp.op[i]), RegKey(lastReg.inp),
                             lastReg.inp.name.re)
               IN  /\ k \in DOMAIN COMMANDS
                   /\ COMMANDS[k].to_auth
                   /\ COMMANDS[k].auth_users = lastReg.inp.to_auth.users

\* C6: the identity recorded in the server variables of a request with a
\* Basic Authorization header, and the identity the gate holds when the
\* allow-list test of that request is made, are the user and password of that
\* request's own header.
C6_OwnIdentity ==
    \A t \in Threads :
        BasicDecodable(h[t].req.auth) =>
            /\ h[t].SERVER.user # None =>
                   h[t].SERVER.user = AuthUser(h[t].req.auth)
            /\ h[t].SERVER.passwd # None =>
                   h[t].SERVER.passwd = AuthPasswd(h[t].req.auth)
            /\ h[t].pc = "check_users" => AUTH.user = AuthUser(h[t].req.auth)

\* C7: without a credential store no request is answered 401 and the gate is
\* passed at once: a request to a command that requires authentication has
\* its handler invoked whatever its Authorization header, unless a test of
\* the body stage rejects it.
C7_NoStoreNoGate ==
    ~AUTH.configured =>
        \A t \in Threads :
            /\ h[t].code # 401
            /\ h[t].pc \in {"idle", "auth", "exec", "done"}
            /\ (Done(t) /\ ReachesGate(t)) =>
                   /\ h[t].auth_called
                   /\ h[t].handler_called \/ h[t].code = 415

\* an auth-required handler has run for a request with a refused header
C7_Witness ==
    /\ ~AUTH.configured
    /\ Done(1)
    /\ h[1].cmd.to_auth
    /\ h[1].req.auth = "Digest abc"
    /\ h[1].auth_called
    /\ h[1].handler_called
    /\ h[1].code = 200

\* the request of thread t is a PATCH/POST/PUT one whose command is resolved
\* and whose Transfer-Encoding and Content-Type are accepted, so that the
\* Content-Length test is made
ReachesClenTest(t) ==
    /\ Resolved(t)
    /\ h[t].req.method \in PayloadMethods
    /\ EncodingCheck(h[t].req, OPTIONS) = 0

\* C8: a PATCH/POST/PUT request that gets to the Content-Length test with a
\* non-numeric or negative value ends with 411, one with a value above
\* max_body_size ends with 413; in both cases no byte of the body is read and
\* the handler is not invoked.
C8_BadLength ==
    \A t \in Threads :
        ReachesClenTest(t) =>
            /\ h[t].req.clen \in {"abc", "-1"} =>
                   /\ Done(t) /\ h[t].code = 411
                   /\ h[t].body_read = 0 /\ ~h[t].handler_called
            /\ h[t].req.clen = ToString(OPTIONS.max_body_size + 1) =>
                   /\ Done(t) /\ h[t].code = 413
                   /\ h[t].body_read = 0 /\ ~h[t].handler_called

\* an oversized body has been refused unread
C8_Witness ==
    /\ Done(1)
    /\ h[1].req.method = "POST"
    /\ h[1].req.clen = ToString(MaxBodySize + 1)
    /\ h[1].code = 413
    /\ h[1].body_read = 0
    /\ ~h[1].handler_called

\* C9 as stated: a PATCH/POST/PUT request without Content-Length header that
\* gets to the Content-Length test (of a command that requires no
\* authentication) ends with 411 and its handler is not invoked.
C9_MissingLength411 ==
    \A t \in Threads :
        (ReachesClenTest(t) /\ ~h[t].cmd.to_auth /\ h[t].req.clen = None
            /\ Done(t)) =>
            h[t].code = 411 /\ ~h[t].handler_called

\* C9 amended: a PATCH/POST/PUT request without Content-Length header is
\* taken as a request with an empty body: it is never answered 411, 413 or
\* 415, no byte of the body is read, and when the encoding tests pass and the
\* command requires no authentication its handler is invoked.
C9_MissingLengthIsZero ==
    \A t \in Threads :
        (h[t].pc # "idle" /\ h[t].req.method \in PayloadMethods
            /\ h[t].req.clen = None) =>
            /\ h[t].code \notin {411, 413, 415}
            /\ h[t].body_read = 0
            /\ (Done(t) /\ ReachesClenTest(t) /\ ~h[t].cmd.to_auth) =>
                   h[t].handler_called /\ h[t].code \in {200, 500}

\* the handler has run for a request without Content-Length
C9_Witness ==
    /\ Done(1)
    /\ h[1].req.method = "POST"
    /\ h[1].req.path = "ping"
    /\ h[1].req.clen = None
    /\ h[1].handler_called
    /\ h[1].code = 200
    /\ h[1].body_read = 0

\* the request carries no credentials the store accepts: no Authorization
\* header, or a Basic one with an unknown user or a wrong password
Unauthenticated(a) ==
    \/ a = None
    \/ BasicDecodable(a) /\ ~SecretMatches(AuthUser(a), AuthPasswd(a))

\* C10 as stated: with a credential store configured, no body-stage error
\* (501, 411, 413) is ever reported for an unauthenticated PATCH/POST/PUT
\* request to a command that requires authentication: it ends with 401.
C10_AuthBeforeBodyStage ==
    \A t \in Threads :
        (AUTH.configured /\ Done(t) /\ Resolved(t) /\ h[t].cmd.to_auth
            /\ h[t].req.method \in PayloadMethods
            /\ Unauthenticated(h[t].req.auth)) =>
            h[t].code = 401

\* C10 amended: for PATCH/POST/PUT the Transfer-Encoding, Content-Type and
\* Content-Length tests come before authentication: a request they reject
\* ends with their status (501, 411, 413) without the gate being run, whether
\* or not it is authenticated; the gate is run for the requests that pass
\* them, before any byte of the body is read and before the handler is
\* invoked. For HEAD/GET/DELETE the gate is run right after the resolution.
C10_HeaderTestsBeforeAuth ==
    \A t \in Threads :
        (Resolved(t) /\ h[t].cmd.to_auth) =>
            /\ (h[t].req.method \in PayloadMethods
                    /\ PayloadHeaderCheck(h[t].req, OPTIONS) # 0) =>
                   /\ Done(t)
                   /\ ~h[t].auth_called
                   /\ h[t].code = PayloadHeaderCheck(h[t].req, OPTIONS)
                   /\ h[t].code \in {501, 411, 413}
            /\ ReachesGate(t) => (h[t].pc = "auth" \/ h[t].auth_called)
            /\ (h[t].handler_called \/ h[t].body_read > 0) => h[t].auth_called

\* an unauthenticated request has been answered with a body-stage error
C10_Witness ==
    /\ AUTH.configured
    /\ Done(1)
    /\ h[1].cmd.to_auth
    /\ h[1].req.method = "POST"
    /\ h[1].req.auth = None
    /\ h[1].req.tenc = "chunked"
    /\ h[1].code = 501
    /\ ~h[1].auth_called

(***************************************************************************)
(* Static responder and response rendering                                 *)
(***************************************************************************)
\* the path lies under the root of the command: the components of the root
\* are the first components of the path, which has more
UnderRoot(path, cmd) ==
    LET r == AbsComps(cmd.root)
        f == AbsComps(path)
    IN  Len(f) > Len(r) /\ SubSeq(f, 1, Len(r)) = r

\* thread t has run static_file() on a file name
RanStatic(t) == Done(t) /\ h[t].cmd.static /\ h[t].filename # ""


\* C11: for a static command, a request whose resolved absolute file path
\* does not lie under the command's absolute root yields 403 (whenever the
\* response can be written to the socket), and the containment check
\* precedes every file system access: static_file() makes no access at all
\* for such a path, and every path it tests, stats, sniffs or opens lies
\* under the root.
C11_StaticContainment ==
    \A t \in Threads :
        RanStatic(t) =>
            /\ ~UnderRoot(h[t].filename, h[t].cmd) =>
                   /\ h[t].fs_ops = <<>>
                   /\ h[t].outer = "none" => h[t].code = 403
            /\ \A i \in DOMAIN h[t].fs_ops :
                   UnderRoot(h[t].fs_ops[i].path, h[t].cmd)

\* a request for a sibling of the root whose name starts like the root's has
\* been refused without any access to the file system
C11_Witness ==
    /\ RanStatic(1)
    /\ h[1].req.path = "doc/../wwwevil/x"
    /\ h[1].filename = "/srv/wwwevil/x"
    /\ h[1].code = 403
    /\ h[1].fs_ops = <<>>

\* static_file() of thread t has returned a response and it has been sent
StaticSent(t) == RanStatic(t) /\ h[t].outer = "none" /\ h[t].code \in {200, 304}

\* the Content-type header of the caller-supplied response, "" without one
CallerType(t) == IF h[t].response.http THEN h[t].response.ctype ELSE ""

\* static_file() of thread t has asked libmagic for the type of the file
DidSniff(t) == \E i \in DOMAIN h[t].fs_ops : h[t].fs_ops[i].op = "magic"

\* C12 as stated: for a static command, when both the caller-supplied
\* response carries a Content-type header and the Command has a configured
\* content_type, the content type of the static response is the
\* caller-supplied header; the Command's content_type is used only when the
\* response carries none.
C12_CallerHeaderFirst ==
    \A t \in Threads :
        (StaticSent(t) /\ CallerType(t) # ""
            /\ h[t].cmd.content_type \notin {"", "__MAGIC__"}) =>
            h[t].ctype = TextCharset(CallerType(t), h[t].cmd.charset)

\* C12 amended: for a static command, the content type of the static
\* response is the Command's configured content_type whenever it has one,
\* whatever Content-type header the caller-supplied response carries; the
\* caller-supplied header is used only when the Command has none; the type
\* is sniffed when neither is set, and also when the value so chosen is
\* "__MAGIC__". A configured or caller-supplied type is sent in lower case,
\* a text type with the Command's charset when it names none.
C12_CommandTypeFirst ==
    \A t \in Threads :
        StaticSent(t) =>
            LET m == h[t].cmd.content_type
                r == CallerType(t)
            IN  /\ m \notin {"", "__MAGIC__"} =>
                       /\ h[t].ctype = TextCharset(m, h[t].cmd.charset)
                       /\ ~DidSniff(t)
                /\ (m = "" /\ r \notin {"", "__MAGIC__"}) =>
                       /\ h[t].ctype = TextCharset(r, h[t].cmd.charset)
                       /\ ~DidSniff(t)
                /\ (m = "__MAGIC__" \/ (m = "" /\ r \in {"", "__MAGIC__"})) =>
                       /\ DidSniff(t)
                       /\ h[t].ctype \in {Sniffed(f.mime) : f \in AllFiles}

\* a static response has been sent with the Command's type although the
\* handler's response carried a Content-type header of its own
C12_Witness ==
    /\ StaticSent(1)
    /\ h[1].code = 200
    /\ h[1].cmd.content_type = "Text/HTML"
    /\ CallerType(1) = "Text/Plain; charset=latin-1"
    /\ h[1].ctype = "text/html; charset=utf-8"

\* static_file() of thread t has found a readable file under the root, for
\* a request with an If-Modified-Since date parse_date() reads, and the
\* response has been sent
StaticConditional(t) ==
    /\ RanStatic(t)
    /\ h[t].outer = "none"
    /\ UnderRoot(h[t].filename, h[t].cmd)
    /\ h[t].file.isfile
    /\ h[t].file.readable
    /\ h[t].req.ims \notin {None, ""}
    /\ IfModified(h[t].req.ims).ok

\* C13: for a static resource requested with an If-Modified-Since header
\* whose parsed timestamp is greater than or equal to the whole seconds of
\* the file's mtime, the response is 304 with send_body false, the file is
\* not opened to read its content, the rendered Content-Length is 0 and no
\* body byte is written; with a strictly older timestamp the response is
\* 200. (mtime10 is the mtime in tenths of a second.)
C13_NotModified304 ==
    \A t \in Threads :
        StaticConditional(t) =>
            LET d == IfModified(h[t].req.ims).t
            IN  /\ 10 * d + 9 >= h[t].file.mtime10 =>
                       /\ h[t].code = 304
                       /\ ~h[t].send_body
                       /\ \A i \in DOMAIN h[t].fs_ops : h[t].fs_ops[i].op # "open"
                       /\ h[t].clen = 0
                       /\ h[t].written = 0
                /\ 10 * d + 9 < h[t].file.mtime10 => h[t].code = 200

\* a file changed half a second after the date of the request has been
\* answered with 304
C13_Witness ==
    /\ StaticConditional(1)
    /\ h[1].req.method = "GET"
    /\ h[1].req.ims = HttpDate(5) \o " ; length=2"
    /\ h[1].file.mtime10 = 55
    /\ h[1].code = 304
    /\ h[1].clen = 0
    /\ ~h[1].send_body

\* a response of thread t has been rendered by end_response()
Rendered(t) == Done(t) /\ h[t].code # 0

\* C14: in every rendered response, body bytes are written only if
\* send_body is true, the request method is not HEAD, the status code is at
\* least 200 and is neither 204 nor 304; in all other cases no body byte is
\* written; and in every case the Content-Length header equals the number
\* of body bytes actually written.
C14_BodyAndLength ==
    \A t \in Threads :
        Rendered(t) =>
            /\ h[t].written > 0 =>
                   /\ h[t].send_body
                   /\ h[t].req.method # "HEAD"
                   /\ h[t].code >= 200
                   /\ h[t].code \notin {204, 304}
            /\ h[t].clen = h[t].written

\* execute() of thread t has raised an unexpected exception
RaisedUnexpected(t) == Done(t) /\ h[t].exc # "none"

\* C15: any unexpected exception (not a structured HttpReqError) raised
\* while resolving, authenticating, parsing the body or running the handler
\* results in a 500 response carrying the traceback text (no other response
\* is sent for it) and is logged, unless it is itself a connection reset or
\* a broken pipe, the only thing swallowed without logging; it never
\* propagates out of common_req(), which returns.
C15_UnexpectedLogged ==
    \A t \in Threads :
        RaisedUnexpected(t) =>
            /\ h[t].code # 0 => (h[t].code = 500 /\ h[t].traceback)
            /\ h[t].exc # "reset" => h[t].logged

(***************************************************************************)
(* Server lifecycle                                                        *)
(***************************************************************************)
\* C16: the kill flag is monotonic: it starts false, it is set to true only
\* by sigterm_handler() (stop() or a shutdown signal), and once true no step
\* of init(), run(), register(), the request handling or a repeated
\* stop()/signal resets it to false.
C16_KillFlagMonotonic ==
    /\ ~KILLED
    /\ [][/\ KILLED => KILLED'
          /\ (~KILLED /\ KILLED') => (sig.pc = "at_stop" /\ sig'.pc = "flagged")
       ]_vars

\* run() has returned and a second stop() has run to its end: the flag is
\* still set
C16_Witness ==
    /\ KILLED
    /\ phase = "returned"
    /\ sig.n = 2
    /\ sig.pc = "idle"
    /\ ~sig.raised

\* init() has returned
InitReturned == phase \in {"initialized", "starting", "loop", "serving", "returned"}

\* run() has got to its serve loop
ServeLoopReached == phase \in {"loop", "serving", "returned"}

\* C17: each registered command's lifecycle callbacks are called once: for a
\* command registered by one register() call, with one or several HTTP
\* methods, safe_init has been invoked exactly once when init() has
\* returned, at_start exactly once when run() gets to its serve loop, and
\* at_stop exactly once when the first shutdown has set the kill flag.
C17_CallbacksOnce ==
    \A k \in DOMAIN COMMANDS :
        LET c == COMMANDS[k]
        IN  /\ (c.safe_init /\ InitReturned) =>
                   Count(calls, "safe_init", c.id) = 1
            /\ (c.at_start /\ ServeLoopReached) =>
                   Count(calls, "at_start", c.id) = 1
            /\ (c.at_stop /\ KILLED /\ sig.n = 1) =>
                   Count(calls, "at_stop", c.id) = 1

\* C18: startup ordering: once run() has made its first serve_until_killed()
\* call, the at_start callback of every registered command that has one has
\* been called and has returned; and once any at_start has been called,
\* init() has run the safe_init of every registered command that has one.
C18_StartupOrder ==
    /\ main.served =>
           \A k \in DOMAIN COMMANDS :
               COMMANDS[k].at_start =>
                   Count(calls, "at_start", COMMANDS[k].id) >= 1
    /\ (\E x \in DOMAIN calls : x[1] = "at_start") =>
           /\ phase \notin {"registering", "init"}
           /\ \A k \in DOMAIN COMMANDS :
                  COMMANDS[k].safe_init =>
                      Count(calls, "safe_init", COMMANDS[k].id) >= 1

\* run() is in serve_until_killed() after the callbacks of two commands
C18_Witness ==
    /\ phase = "serving"
    /\ main.served
    /\ \E k \in DOMAIN COMMANDS : COMMANDS[k].id = 3 /\ COMMANDS[k].at_start
    /\ Count(calls, "at_start", 1) >= 1
    /\ Count(calls, "at_start", 3) >= 1
    /\ Count(calls, "safe_init", 3) >= 1

\* C19: shutdown ordering: sigterm_handler() runs every registered command's
\* at_stop callback first, then sets the kill flag, then kills and closes
\* the connection server: whenever the kill flag is true every at_stop has
\* been called, the server is killed or closed only while the flag is true,
\* and it is closed only after it has been killed.
C19_ShutdownOrder ==
    /\ [](/\ KILLED =>
                \A k \in DOMAIN COMMANDS :
                    COMMANDS[k].at_stop =>
                        Count(calls, "at_stop", COMMANDS[k].id) >= 1
          /\ HTTP_SERVER \in {"killed", "closed"} => KILLED)
    /\ [][/\ (HTTP_SERVER # "closed" /\ HTTP_SERVER' = "closed") =>
                 (HTTP_SERVER = "killed" /\ KILLED)
          /\ (HTTP_SERVER # "killed" /\ HTTP_SERVER' = "killed") => KILLED
       ]_vars

\* a shutdown has run to its end on a serving server
C19_Witness ==
    /\ KILLED
    /\ HTTP_SERVER = "closed"
    /\ sig.pc = "idle"
    /\ main.served
    /\ Count(calls, "at_stop", 1) >= 1

\* SpecLifeFair: the main thread goes on running its loop, a
\* serve_until_killed() call on a killed or closed server ends, and a
\* sigterm_handler() that has been entered goes on running
SpecLifeFair ==
    /\ InitLife
    /\ [][NextLife]_vars
    /\ WF_vars(LoopTest)
    /\ WF_vars(ServeEnd("return") \/ ServeEnd("EBADF"))
    /\ WF_vars(SigStep)

\* C20: liveness of shutdown: if stop() or a shutdown signal occurs while
\* run() is in its serve loop, then unless an at_stop callback raises or the
\* serve call ends with an error other than EINTR and EBADF, the kill flag
\* is eventually true and run() eventually leaves the loop and returns.
C20_ShutdownLiveness ==
    (sig.pc # "idle" /\ phase \in {"loop", "serving"}) ~>
        \/ KILLED /\ phase = "returned"
        \/ sig.raised
        \/ phase = "raised" /\ main.err = "error"

\* run() has served, has been stopped and has returned
C20_Witness ==
    /\ KILLED
    /\ phase = "returned"
    /\ main.served
    /\ ~sig.raised
    /\ HTTP_SERVER = "closed"

\* a response was written for the request of thread t
Answered(t) == Done(t) /\ h[t].code # 0

\* C21: for every request resolved to a command registered with to_log=false,
\* whatever its method (HEAD/GET/DELETE as well as PATCH/POST/PUT), request
\* logging is disabled for that request: when its response is written the log
\* flag is off and send_response() does not log the request.
C21_LogDisabled ==
    \A t \in Threads :
        (Answered(t) /\ Resolved(t) /\ ~h[t].cmd.to_log) =>
            (~h[t].to_log /\ ~h[t].req_logged)

\* the four headers of do_OPTIONS(), under the names add_header() keeps
CorsHeaders ==
    { <<"Access-control-allow-origin", "*">>,
      <<"Access-control-allow-methods", "OPTIONS, POST">>,
      <<"Access-control-allow-headers",
        "Origin, X-Requested-With, Content-Type, Accept, Authorization">>,
      <<"Access-control-max-age", "1728000">> }

\* C22: an OPTIONS request to any path yields status 204 with the four fixed
\* CORS headers and no body, whatever the command registry and the
\* credential store hold and whatever its Authorization header is, and no
\* handler is invoked (the response is what do_OPTIONS() writes when the
\* write to the socket does not fail).
C22_OptionsAlways204 ==
    \A t \in Threads :
        (Done(t) /\ h[t].req.method = "OPTIONS" /\ h[t].outer = "none") =>
            /\ h[t].code = 204
            /\ h[t].rest = CorsHeaders
            /\ h[t].clen = 0
            /\ h[t].written = 0
            /\ ~h[t].handler_called
            /\ ~h[t].auth_called

\* an OPTIONS request to a route that asks for authentication, with a header
\* the credential check refuses, has been answered with 204
C22_Witness ==
    /\ Done(1)
    /\ h[1].req.method = "OPTIONS"
    /\ h[1].req.path = "secret"
    /\ h[1].req.auth = "Digest abc"
    /\ AUTH.configured
    /\ h[1].code = 204
    /\ h[1].rest = CorsHeaders

\* the request of thread t has a query string, decoded by _pathify(), and
\* its execute step is about to run the handler
Decoded(t) == h[t].pc = "exec" /\ h[t].req.query # <<>>

\* the integer indexes of the dict m
Indexes(m) == {k.n : k \in {x \in DOMAIN m : x.int}}

RECURSIVE Contiguous(_)
\* at every nesting level the integer indexes are 0, 1, 2, ... without a gap
Contiguous(m) ==
    /\ Indexes(m) = 0 .. Cardinality(Indexes(m)) - 1
    /\ \A k \in DOMAIN m : m[k].dict => Contiguous(m[k].m)

\* C23: append semantics of the parameter decoder: each empty bracket segment
\* stores its value (or sub-mapping) under the smallest non-negative integer
\* not yet used in the mapping at that nesting level, the scan starting from 0
\* at each level: the indexes of every level have no gap, a[]=x, a[]=y gives
\* a = {0: x, 1: y}, and a[][]=x, a[][]=y gives a = {0: {0: x}, 1: {0: y}}.
C23_AppendPerLevel ==
    \A t \in Threads :
        Decoded(t) =>
            /\ Contiguous(h[t].query_params)
            /\ h[t].req.query = << <<"a[]", "x">>, <<"a[]", "x">> >> =>
                   h[t].query_params =
                       (StrKey("a") :>
                            Dict(IntKey(0) :> Leaf("x") @@ IntKey(1) :> Leaf("x")))
            /\ h[t].req.query = << <<"a[][]", "x">>, <<"a[][]", "y">> >> =>
                   h[t].query_params =
                       (StrKey("a") :>
                            Dict(IntKey(0) :> Dict(IntKey(0) :> Leaf("x")) @@
                                 IntKey(1) :> Dict(IntKey(0) :> Leaf("y"))))

\* a key without a bracket
PlainKey(k) == FindChar(k, "[") = 0 /\ FindChar(k, "]") = 0

\* a key the decoder reads as name[...], and its name
Bracketed(k) == FindChar(k, "[") # 0 /\ FindChar(k, "]") # 0
BaseName(k) == SubSeq(k, 1, FindChar(k, "[") - 1)

\* the value of the last pair of the query whose key is k
LastValue(query, k) ==
    LET idx  == {i \in 1 .. Len(query) : query[i] # <<>> /\ query[i][1] = k}
        last == CHOOSE i \in idx : \A j \in idx : j <= i
    IN  IF Len(query[last]) > 1 THEN query[last][2] ELSE None

\* a bracketed key of name k comes after the last pair of the query whose
\* key is k
BracketedLater(query, k) ==
    \E i, j \in 1 .. Len(query) :
        /\ i < j
        /\ query[i][1] = k
        /\ \A l \in i + 1 .. Len(query) : query[l][1] # k
        /\ Bracketed(query[j][1])
        /\ BaseName(query[j][1]) = k

\* C24 as stated: for every sequence of (key, value) pairs, the mapping the
\* parameter decoder returns has no top-level key ____ts, and every plain
\* key of the sequence (other than ____ts) has in it the value of the last
\* pair with that key.
C24_PlainLastWins ==
    \A t \in Threads :
        Decoded(t) =>
            LET q  == h[t].req.query
                qp == h[t].query_params
            IN  /\ StrKey("____ts") \notin DOMAIN qp
                /\ \A i \in 1 .. Len(q) :
                       (PlainKey(q[i][1]) /\ q[i][1] # "____ts") =>
                           /\ StrKey(q[i][1]) \in DOMAIN qp
                           /\ qp[StrKey(q[i][1])] = Leaf(LastValue(q, q[i][1]))

\* C24, amended: for every sequence of (key, value) pairs, the mapping the
\* parameter decoder returns has no top-level key ____ts, and every plain
\* key of the sequence (other than ____ts) that no later bracketed key of
\* the same name follows has in it the value of the last pair with that key;
\* a later bracketed key name[...] replaces the plain value by a mapping.
C24_PlainLastWinsUnlessBracketed ==
    \A t \in Threads :
        Decoded(t) =>
            LET q  == h[t].req.query
                qp == h[t].query_params
            IN  /\ StrKey("____ts") \notin DOMAIN qp
                /\ \A i \in 1 .. Len(q) :
                       (/\ PlainKey(q[i][1])
                        /\ q[i][1] # "____ts"
                        /\ ~BracketedLater(q, q[i][1])) =>
                           /\ StrKey(q[i][1]) \in DOMAIN qp
                           /\ qp[StrKey(q[i][1])] = Leaf(LastValue(q, q[i][1]))
                /\ \A i \in 1 .. Len(q) :
                       (PlainKey(q[i][1]) /\ BracketedLater(q, q[i][1])) =>
                           /\ StrKey(q[i][1]) \in DOMAIN qp
                           /\ qp[StrKey(q[i][1])].dict

\* a plain key given twice has been decoded to its second value
C24_Witness ==
    /\ Decoded(1)
    /\ h[1].req.query = << <<"a", "x">>, <<"a", "y">> >>
    /\ h[1].query_params = (StrKey("a") :> Leaf("y"))

\* the methods of a Command, as a set
MethodSet(op) == {op[i] : i \in 1 .. Len(op)}

\* the constraints of a registered Command
ValidCommand(c) ==
    /\ MethodSet(c.op) # {}
    /\ MethodSet(c.op) \subseteq METHODS
    /\ c.static => (MethodSet(c.op) \subseteq {"GET", "HEAD"} /\ c.root # "")

\* the arguments of a register() call break the constraints
BreaksConstraints(inp) ==
    LET ms == MethodSet(RegMethods(inp.op))
    IN  \/ ms = {}
        \/ ~(ms \subseteq METHODS)
        \/ inp.static /\ ~(ms \subseteq {"GET", "HEAD"})
        \/ inp.static /\ inp.root = ""

\* C25: every Command in the registry after any sequence of register() calls
\* has a non-empty method set within {HEAD,GET,DELETE,PATCH,POST,PUT}, and if
\* it is static its methods are within {GET,HEAD} and its root is non-empty;
\* a register() call whose arguments break this raises an error.
C25_RegistryConstraints ==
    /\ [](\A k \in DOMAIN COMMANDS : ValidCommand(COMMANDS[k]))
    /\ [][(nregs' = nregs + 1 /\ BreaksConstraints(lastReg'.inp)) =>
              lastReg'.exc = "ValueError"]_vars

\* a static command is registered and a static registration that breaks the
\* constraints has just been refused
C25_Witness ==
    /\ \E k \in DOMAIN COMMANDS : COMMANDS[k].static
    /\ lastReg.inp.static
    /\ BreaksConstraints(lastReg.inp)
    /\ lastReg.exc = "ValueError"

\* C30: a register() call that fails (unknown method, static constraint
\* broken, or duplicate key for any one of its methods) leaves the registry
\* exactly as it was before the call: none of the methods of the failed call
\* becomes routable.
C30_FailedRegisterNoEffect ==
    [][(nregs' = nregs + 1 /\ lastReg'.exc # "none") =>
          /\ COMMANDS' = COMMANDS
          /\ NCMD' = NCMD
          /\ RCMD' = RCMD]_vars

ServeEnded ==
    /\ phase = "serving"
    /\ phase' # "serving"
    /\ ~(main'.err = "at_stop" /\ main.err # "at_stop")

\* C27: the serve loop of run() keeps serving while the kill flag is false:
\* the loop test calls the serve step when the flag is false and leaves the
\* loop when it is true; EINTR from the serve step is let through and the
\* loop continues; EBADF is let through only when the kill flag is already
\* set; every other socket/select error, and EBADF while the flag is false,
\* propagates out of run().
C27_ServeLoopErrors ==
    [][/\ (phase = "loop" /\ phase' # "loop" /\ main'.err = main.err) =>
              (IF KILLED THEN phase' = "returned" ELSE phase' = "serving")
       /\ ServeEnded =>
              /\ main'.why \in {"return", "EINTR"} => phase' = "loop"
              /\ (main'.why = "EBADF" /\ KILLED) => phase' = "loop"
              /\ (main'.why = "EBADF" /\ ~KILLED) =>
                     (phase' = "raised" /\ main'.err = "EBADF")
              /\ main'.why = "error" =>
                     (phase' = "raised" /\ main'.err = "error")
      ]_vars

\* run() has been left by an EBADF raised while the kill flag was false
C27_Witness ==
    /\ phase = "raised"
    /\ main.err = "EBADF"
    /\ main.why = "EBADF"
    /\ main.served
    /\ ~KILLED

\* the value the caller set for a header on the response, "" when it set none
CallerValue(t, name) ==
    IF \E x \in h[t].items : x[1] = name
    THEN (CHOOSE x \in h[t].items : x[1] = name)[2]
    ELSE ""

\* the value sent at a fixed position: the caller's when it set one (an empty
\* value counts as none), the default otherwise
Winning(t, name, default) ==
    IF CallerValue(t, name) # "" THEN CallerValue(t, name) ELSE default

\* C28: response header rendering, for every response end_response() writes:
\* Server, Date, Cache-Control, Pragma, Connection, Content-Type and
\* Content-Length are sent in that order; Cache-Control, Pragma and Connection
\* carry the caller's value when the caller set one and no-cache, no-cache and
\* close otherwise; Content-Type carries the caller's value when set;
\* Content-Length is the computed length. In the pass over the caller's
\* headers that follows, Cache-control, Connection and Server are never sent
\* again, while a caller-set Content-type, Content-length or Pragma is sent
\* again, like every header the tuple does not name.
C28_HeaderRendering ==
    \A t \in Threads :
        Answered(t) =>
            /\ [i \in 1 .. Len(h[t].head) |-> h[t].head[i][1]] =
                   <<"Server", "Date", "Cache-Control", "Pragma", "Connection",
                     "Content-Type", "Content-Length">>
            /\ h[t].head[3][2] = Winning(t, "Cache-control", "no-cache")
            /\ h[t].head[4][2] = Winning(t, "Pragma", "no-cache")
            /\ h[t].head[5][2] = Winning(t, "Connection", "close")
            /\ CallerValue(t, "Content-type") # "" =>
                   h[t].head[6][2] = CallerValue(t, "Content-type")
            /\ h[t].head[7][2] = ToString(h[t].clen)
            /\ h[t].rest \subseteq h[t].items
            /\ \A x \in h[t].items :
                   x \in h[t].rest <=>
                       x[1] \notin {"Cache-control", "Connection", "Server"}

\* a response whose caller set Cache-Control, Pragma, Connection,
\* Content-Length, Content-Type and Server has been written
C28_Witness ==
    /\ Answered(1)
    /\ h[1].head[3] = <<"Cache-Control", "max-age=60">>
    /\ h[1].head[4] = <<"Pragma", "public">>
    /\ h[1].head[5] = <<"Connection", "keep-alive">>
    /\ h[1].head[7] = <<"Content-Length", "3">>
    /\ {<<"Pragma", "public">>, <<"Content-length", "99">>,
        <<"Content-type", "Text/Plain; charset=latin-1">>} \subseteq h[1].rest
    /\ <<"Server", "mine">> \in h[1].items
    /\ <<"Cache-control", "max-age=60">> \in h[1].items \ h[1].rest

\* C29: request context isolation across the successive requests of one
\* handler object: whenever a request is in progress or finished, the command
\* the handler holds is none or one the registry resolves for this request's
\* own method and path, the log flag is off only on account of that command,
\* and the query parameters are cleared once the request is finished, so the
\* command of an earlier request is never observed.
C29_ContextIsolation ==
    \A t \in Threads :
        h[t].pc # "idle" =>
            /\ h[t].cmd # NoCmd =>
                   \E r \in Resolve(h[t].req.method, h[t].req.path, NCMD, RCMD) :
                       r.cmd = h[t].cmd
            /\ ~h[t].to_log => h[t].cmd # NoCmd
            /\ Done(t) => h[t].query_params = NoItems

\* a sigterm_handler() call (stop() or a signal) has been made and has ended,
\* by return or by the exception of an at_stop callback
ShutdownEnded == sig.n >= 1 /\ sig.pc = "idle"

\* C31: shutdown robustness under interleaving and callback failure: once a
\* shutdown has been triggered, at any point after init() began and even if
\* an at_stop callback raised, and sigterm_handler() has ended, the kill flag
\* is set and the connection server run() made is not left open or merely
\* killed, at that moment or when run() is over; and no at_stop callback of
\* a command is called before the at_start callback of the same command.
C31_ShutdownRobust ==
    /\ ShutdownEnded => KILLED
    /\ (ShutdownEnded /\ HTTP_SERVER # "none" /\
            phase \in {"loop", "serving", "returned", "raised"}) =>
           HTTP_SERVER = "closed"
    /\ \A k \in DOMAIN COMMANDS :
           (COMMANDS[k].at_start /\ COMMANDS[k].at_stop /\
                Count(calls, "at_stop", COMMANDS[k].id) >= 1) =>
               Count(calls, "at_start", COMMANDS[k].id) >= 1

====
